---- MODULE Spec2Model ----
(***************************************************************************)
(* Model of the orchestr8-async task and workflow execution engine:        *)
(* the Store (db.rs), the command queue, worker pool, scheduler, result    *)
(* processor and workflow executor (queue.rs), the task-creating request   *)
(* handlers (api.rs) and the webhook delivery pipeline (webhook.rs).       *)
(***************************************************************************)
EXTENDS Integers, Sequences, FiniteSets, TLC

(***************************************************************************)
(* Bounds of the model.                                                    *)
(***************************************************************************)
\* number of task rows that may ever be inserted
MaxTasks == 2
\* capacity of the command channel (bounded::<TaskCommand>(1000) in the code)
MaxQueue == 2
\* number of task rows inserted when the life of single tasks is explored
MaxLifecycleTasks == 1
\* number of Cancel / Retry requests clients may issue
MaxRequests == 1
\* number of start_workflow requests clients may issue
MaxStarts == 1
\* number of workflows that may ever be created
MaxWorkflows == 1
\* size of the worker pool (worker_count of TaskQueue::new)
NumWorkers == 2
\* number of times the webhook endpoint may answer with a failure
MaxEndpointFailures == 4
\* largest retry_count and largest max_retries of a task row given to can_retry
MaxRetryCount == 3
MaxMaxRetries == 3
\* largest number of task rows in a Store given to get_pending_tasks, and largest LIMIT
MaxStoreTasks == 3
MaxLimit == 3
\* largest number of task ids a task given to are_dependencies_completed can name
MaxDependencies == 2
\* number of Retry requests a client sends for a task that keeps failing
MaxDownAnswers == 9
MaxRetryRequests == 4

(***************************************************************************)
(* Program constants.                                                      *)
(***************************************************************************)
\* AsyncTask::new: max_retries
TaskMaxRetries == 3
\* WebhookConfig::default: max_retries
WebhookMaxRetries == 3
\* TaskPriority ordinals
Low == 1
Normal == 5
High == 10
Critical == 20
\* get_pending_tasks limit used by the scheduler
SchedulerLimit == 100
\* SQL NULL / Option::None of a text or timestamp column
NULL == "null"
\* SQL NULL / Option::None of an identifier or integer column
None == 0

TaskIds == 1..MaxTasks
WorkerIds == 1..NumWorkers
WorkflowIds == 1..MaxWorkflows
PhaseIds == {"p1", "p2"}

Pending == "pending"
Running == "running"
Completed == "completed"
Failed == "failed"
Cancelled == "cancelled"
TaskStatus == {Pending, Running, Completed, Failed, Cancelled}

\* value written by Utc::now() into a timestamp column (the instant itself is abstracted)
Now == "now"

VARIABLES
    tasks,               \* table tasks: id -> row
    workflows,           \* table workflows: id -> row
    workflow_phases,     \* table workflow_phases: <<workflow_id, phase_id>> -> row
    task_logs,           \* table task_logs: <<task_id, message>> -> number of such rows (row order not modelled)
    webhook_deliveries,  \* table webhook_deliveries: sequence of rows, oldest first
    queue,               \* command channel tx/rx
    result_queue,        \* result channel result_tx/result_rx
    workers,             \* worker id -> position of that worker's loop
    webhook_worker,      \* position of the webhook delivery worker
    endpoint,            \* the external webhook endpoint: failures it may still answer, calls it received
    requests,            \* history: the number of Cancel / Retry and of start requests issued, the tasks sent a Retry
    call,                \* the call a client has in progress on the Store or the queue, or the last one's answer
    loops                \* position of the scheduler loop and of the result processor loop

vars == <<tasks, workflows, workflow_phases, task_logs, webhook_deliveries,
          queue, result_queue, workers, webhook_worker, endpoint, requests,
          call, loops>>

(***************************************************************************)
(* db.rs: rows and row predicates                                          *)
(***************************************************************************)
\* AsyncTask::new followed by the builder calls of the request handlers
AsyncTask(id, priority, dependencies, webhook_url, workflow_id, phase_id, created_at) ==
    [id |-> id, workflow_id |-> workflow_id, phase_id |-> phase_id,
     status |-> Pending, priority |-> priority, dependencies |-> dependencies,
     created_at |-> created_at, started_at |-> NULL, completed_at |-> NULL,
     result |-> NULL, error |-> NULL, webhook_url |-> webhook_url,
     retry_count |-> 0, max_retries |-> TaskMaxRetries]

\* Workflow::new
Workflow(id) ==
    [id |-> id, status |-> Pending, started_at |-> NULL, completed_at |-> NULL]

\* WorkflowPhase::new followed by with_dependencies
WorkflowPhase(workflow_id, phase_id, depends_on) ==
    [workflow_id |-> workflow_id, phase_id |-> phase_id, depends_on |-> depends_on,
     status |-> Pending, started_at |-> NULL, completed_at |-> NULL]

is_ready(task) == task.status = Pending

is_complete(task) == task.status \in {Completed, Failed, Cancelled}

\* can_retry as it would be if the comparison let retry_count reach max_retries
can_retry_up_to_max_retries(task) ==
    task.status = Failed /\ task.retry_count <= task.max_retries

can_retry(task) == task.status = Failed /\ task.retry_count < task.max_retries

\* Database::get_task: is the answer Some(row)
has_task(T, id) == id \in DOMAIN T

\* Database::get_task: the row of the answer Some(row)
get_task(T, id) == T[id]

\* Database::insert_task
insert_task(T, task) == T @@ (task.id :> task)

\* update_task_status with the timestamp columns left out of the UPDATE
update_task_status_without_timestamps(T, id, status) ==
    IF id \notin DOMAIN T THEN T
    ELSE [T EXCEPT ![id].status = status]

\* Database::update_task_status: one UPDATE ... WHERE id = ?, a missing row updates nothing
update_task_status(T, id, status) ==
    IF id \notin DOMAIN T THEN T
    ELSE IF status = Running
         THEN [T EXCEPT ![id].status = status, ![id].started_at = Now]
    ELSE IF status \in {Completed, Failed, Cancelled}
         THEN [T EXCEPT ![id].status = status, ![id].completed_at = Now]
    ELSE [T EXCEPT ![id].status = status]

\* update_task_result as it would be if the UPDATE wrote the result column only
update_task_result_without_status(T, id, result) ==
    IF id \notin DOMAIN T THEN T
    ELSE [T EXCEPT ![id].result = result]

\* Database::update_task_result
update_task_result(T, id, result) ==
    IF id \notin DOMAIN T THEN T
    ELSE [T EXCEPT ![id].result = result, ![id].status = Completed, ![id].completed_at = Now]

\* Database::update_task_error
update_task_error(T, id, error) ==
    IF id \notin DOMAIN T THEN T
    ELSE [T EXCEPT ![id].error = error, ![id].status = Failed, ![id].completed_at = Now]

\* ORDER BY priority DESC, created_at ASC: does row a come before row b
PendingBefore(a, b) ==
    \/ a.priority > b.priority
    \/ a.priority = b.priority /\ a.created_at < b.created_at

\* ORDER BY created_at ASC
CreatedBefore(a, b) == a.created_at < b.created_at

\* the rows of S in the order ORDER BY priority DESC, created_at ASC
SortPending(S) ==
    LET before == [a \in S |-> Cardinality({b \in S : PendingBefore(b, a)})]
    IN  [i \in 1..Cardinality(S) |-> CHOOSE a \in S : before[a] = i - 1]

\* the rows of S in the order ORDER BY created_at ASC
RECURSIVE SortCreated(_)
SortCreated(S) ==
    IF S = {} THEN << >>
    ELSE LET first == CHOOSE a \in S : \A b \in S \ {a} : CreatedBefore(a, b)
         IN  <<first>> \o SortCreated(S \ {first})

\* LIMIT n
Limit(s, n) == IF Len(s) <= n THEN s ELSE SubSeq(s, 1, n)

\* get_pending_tasks as it would be with ORDER BY created_at ASC alone
get_pending_tasks_by_created_at(T, limit) ==
    Limit(SortCreated({T[id] : id \in {i \in DOMAIN T : T[i].status = Pending}}), limit)

\* Database::get_pending_tasks
get_pending_tasks(T, limit) ==
    Limit(SortPending({T[id] : id \in {i \in DOMAIN T : T[i].status = Pending}}), limit)

\* Database::get_workflow_tasks
get_workflow_tasks(T, workflow_id) ==
    SortCreated({T[id] : id \in {i \in DOMAIN T : T[i].workflow_id = workflow_id}})

\* are_dependencies_completed as it would be if a dependency without a row were skipped
are_dependencies_completed_skipping_missing_rows(T, task) ==
    \A dep_id \in task.dependencies :
        dep_id \in DOMAIN T => T[dep_id].status = Completed

\* Database::are_dependencies_completed
are_dependencies_completed(T, task) ==
    \A dep_id \in task.dependencies :
        dep_id \in DOMAIN T /\ T[dep_id].status = Completed

\* Database::update_workflow_status: a missing row updates nothing
update_workflow_status(W, id, status) ==
    IF id \notin DOMAIN W THEN W
    ELSE IF status = Running
         THEN [W EXCEPT ![id].status = status, ![id].started_at = Now]
    ELSE IF status \in {Completed, Failed, Cancelled}
         THEN [W EXCEPT ![id].status = status, ![id].completed_at = Now]
    ELSE [W EXCEPT ![id].status = status]

\* Database::get_workflow_phases, as the set of the workflow's phase rows
get_workflow_phases(P, workflow_id) ==
    {P[k] : k \in {j \in DOMAIN P : j[1] = workflow_id}}

\* insert_phase's INSERT as it would fail if the PRIMARY KEY were phase_id alone
insert_phase_fails_on_phase_id_alone(P, phase) ==
    \E k \in DOMAIN P : k[2] = phase.phase_id

\* Database::insert_phase: does the INSERT fail on PRIMARY KEY (workflow_id, phase_id)
insert_phase_fails(P, phase) ==
    <<phase.workflow_id, phase.phase_id>> \in DOMAIN P

\* Database::insert_phase: the rows after the INSERT; a failing INSERT writes nothing
insert_phase(P, phase) ==
    IF insert_phase_fails(P, phase) THEN P
    ELSE P @@ (<<phase.workflow_id, phase.phase_id>> :> phase)

\* Database::update_phase_status
update_phase_status(P, workflow_id, phase_id, status) ==
    IF <<workflow_id, phase_id>> \notin DOMAIN P THEN P
    ELSE IF status = Running
         THEN [P EXCEPT ![<<workflow_id, phase_id>>].status = status,
                        ![<<workflow_id, phase_id>>].started_at = Now]
    ELSE IF status \in {Completed, Failed, Cancelled}
         THEN [P EXCEPT ![<<workflow_id, phase_id>>].status = status,
                        ![<<workflow_id, phase_id>>].completed_at = Now]
    ELSE [P EXCEPT ![<<workflow_id, phase_id>>].status = status]

\* are_phase_dependencies_completed as it would be if the SELECT left out
\* "workflow_id = ?" and a phase of that name in any workflow counted
are_phase_dependencies_completed_in_any_workflow(P, workflow_id, phase) ==
    \A dep_phase_id \in phase.depends_on :
        \E k \in DOMAIN P : k[2] = dep_phase_id /\ P[k].status = Completed

\* Database::are_phase_dependencies_completed
are_phase_dependencies_completed(P, workflow_id, phase) ==
    \A dep_phase_id \in phase.depends_on :
        /\ <<workflow_id, dep_phase_id>> \in DOMAIN P
        /\ P[<<workflow_id, dep_phase_id>>].status = Completed

\* Database::add_task_log: one more row with this task_id and message
add_task_log(L, task_id, message) ==
    IF <<task_id, message>> \in DOMAIN L THEN [L EXCEPT ![<<task_id, message>>] = @ + 1]
    ELSE L @@ (<<task_id, message>> :> 1)

\* the number of rows of task_logs with this task_id and message
log_count(L, task_id, message) ==
    IF <<task_id, message>> \in DOMAIN L THEN L[<<task_id, message>>] ELSE 0


(***************************************************************************)
(* queue.rs: commands, results, internal methods                           *)
(***************************************************************************)
\* enum TaskCommand
Execute(task_id) == [type |-> "Execute", task_id |-> task_id]
Cancel(task_id) == [type |-> "Cancel", task_id |-> task_id]
Retry(task_id) == [type |-> "Retry", task_id |-> task_id]
Shutdown == [type |-> "Shutdown", task_id |-> None]

\* struct TaskResult, as the runner may return it: the shipped runner
\* (simulate_task_execution) answers the first value, a failing runner the second
RunnerOutcomes ==
    {[success |-> TRUE, result |-> "result", error |-> NULL],
     [success |-> FALSE, result |-> NULL, error |-> "error"]}

TaskResult(task_id, outcome) ==
    [task_id |-> task_id, success |-> outcome.success,
     result |-> outcome.result, error |-> outcome.error]

\* phases.iter().find(|p| p.phase_id == *phase_id): is the answer Some(phase)
has_phase(P, workflow_id, phase_id) == <<workflow_id, phase_id>> \in DOMAIN P

\* phases.iter().find(|p| p.phase_id == *phase_id): the row of the answer Some(phase)
find_phase(P, workflow_id, phase_id) == P[<<workflow_id, phase_id>>]

\* TaskQueue::schedule_pending_tasks: should the loop body send Execute for this row
schedule_sends(T, P, task) ==
    /\ are_dependencies_completed(T, task)
    /\ \/ task.workflow_id = None
       \/ task.phase_id = NULL
       \/ ~has_phase(P, task.workflow_id, task.phase_id)
       \/ are_phase_dependencies_completed(P, task.workflow_id,
              find_phase(P, task.workflow_id, task.phase_id))

\* the loop of schedule_pending_tasks over the fetched rows: the commands sent, in order
SelectExecutes(T, P, rows) ==
    LET sent == SelectSeq(rows, LAMBDA task : schedule_sends(T, P, task))
    IN  [i \in 1..Len(sent) |-> Execute(sent[i].id)]

\* TaskQueue::schedule_pending_tasks: the commands one tick sends
schedule_pending_tasks(T, P) == SelectExecutes(T, P, get_pending_tasks(T, SchedulerLimit))

\* the rollup as it would be without the branch for workflows whose members
\* are all terminal but not all Completed
rollup_workflow_status_without_all_done(T, W, workflow_id) ==
    LET rows == get_workflow_tasks(T, workflow_id)
        all_completed == \A i \in 1..Len(rows) : rows[i].status = Completed
        any_failed == \E i \in 1..Len(rows) : rows[i].status = Failed
    IN  IF any_failed THEN update_workflow_status(W, workflow_id, Failed)
        ELSE IF all_completed THEN update_workflow_status(W, workflow_id, Completed)
        ELSE W

\* TaskQueue::update_workflow_status (the rollup)
rollup_workflow_status(T, W, workflow_id) ==
    LET rows == get_workflow_tasks(T, workflow_id)
        all_completed == \A i \in 1..Len(rows) : rows[i].status = Completed
        any_failed == \E i \in 1..Len(rows) : rows[i].status = Failed
        all_done == \A i \in 1..Len(rows) : is_complete(rows[i])
    IN  IF any_failed THEN update_workflow_status(W, workflow_id, Failed)
        ELSE IF all_completed THEN update_workflow_status(W, workflow_id, Completed)
        ELSE IF all_done THEN update_workflow_status(W, workflow_id, Completed)
        ELSE W

\* tasks.iter().filter(|t| t.status == status).count()
count_status(rows, status) == Cardinality({i \in 1..Len(rows) : rows[i].status = status})

\* get_workflow_status as it would be if completed_tasks counted every terminal task
get_workflow_status_counting_terminal(T, W, P, workflow_id) ==
    IF workflow_id \notin DOMAIN W THEN [state |-> "error"]
    ELSE LET rows == get_workflow_tasks(T, workflow_id)
         IN  [state |-> "ok",
              workflow |-> W[workflow_id],
              phases |-> get_workflow_phases(P, workflow_id),
              total_tasks |-> Len(rows),
              completed_tasks |-> Cardinality({i \in 1..Len(rows) : is_complete(rows[i])}),
              failed_tasks |-> count_status(rows, Failed),
              running_tasks |-> count_status(rows, Running)]

\* WorkflowExecutor::get_workflow_status: Err("Workflow not found") or the summary
get_workflow_status(T, W, P, workflow_id) ==
    IF workflow_id \notin DOMAIN W THEN [state |-> "error"]
    ELSE LET rows == get_workflow_tasks(T, workflow_id)
         IN  [state |-> "ok",
              workflow |-> W[workflow_id],
              phases |-> get_workflow_phases(P, workflow_id),
              total_tasks |-> Len(rows),
              completed_tasks |-> count_status(rows, Completed),
              failed_tasks |-> count_status(rows, Failed),
              running_tasks |-> count_status(rows, Running)]

\* start_workflow's loop body as it would be without the look at the phase row
start_submits_whatever_the_phase(P, task) ==
    task.dependencies = {}

\* WorkflowExecutor::start_workflow: should the loop body submit this row
start_submits(P, task) ==
    /\ task.dependencies = {}
    /\ IF task.phase_id # NULL /\ task.workflow_id # None
       THEN /\ has_phase(P, task.workflow_id, task.phase_id)
            /\ find_phase(P, task.workflow_id, task.phase_id).depends_on = {}
       ELSE TRUE

RECURSIVE SelectSubmits(_, _)
SelectSubmits(P, rows) ==
    IF rows = << >> THEN << >>
    ELSE (IF start_submits(P, Head(rows)) THEN <<Execute(Head(rows).id)>> ELSE << >>)
         \o SelectSubmits(P, Tail(rows))

\* a fresh Uuid::new_v4 for a task / a workflow: the next unused identifier
NewTaskId == Cardinality(DOMAIN tasks) + 1
NewWorkflowIdOf(W) == Cardinality(DOMAIN W) + 1
NewWorkflowId == NewWorkflowIdOf(workflows)

\* the channel has room for n more commands (send blocks while it is full)
HasRoom(n) == Len(queue) + n <= MaxQueue

idle == [state |-> "idle", task_id |-> None]

\* a worker whose loop has ended (break)
exited == [state |-> "exited", task_id |-> None]

\* no call in progress
no_call == [op |-> "none"]

\* the scheduler loop and the result processor loop as TaskQueue::start spawns them
spawned == [scheduler |-> "running", result_processor |-> "running"]

\* the first worker of the pool
FirstWorker == CHOOSE w \in WorkerIds : \A v \in WorkerIds : w <= v

(***************************************************************************)
(* Request handlers                                                        *)
(***************************************************************************)
\* api.rs create_task (and the task_async tool): insert_task, then submit_task
CreateTask(priority, dependencies, webhook_url) ==
    /\ NewTaskId \in TaskIds
    /\ HasRoom(1)
    /\ tasks' = insert_task(tasks,
           AsyncTask(NewTaskId, priority, dependencies, webhook_url, None, NULL, NewTaskId))
    /\ queue' = Append(queue, Execute(NewTaskId))
    /\ UNCHANGED <<workflows, workflow_phases, task_logs, webhook_deliveries,
                   result_queue, workers, webhook_worker, endpoint, requests, call, loops>>

\* api.rs cancel_task -> TaskQueue::cancel_task (public): send Cancel
CancelRequest(task_id) ==
    /\ requests.count < MaxRequests
    /\ HasRoom(1)
    /\ queue' = Append(queue, Cancel(task_id))
    /\ requests' = [requests EXCEPT !.count = @ + 1]
    /\ UNCHANGED <<tasks, workflows, workflow_phases, task_logs, webhook_deliveries,
                   result_queue, workers, webhook_worker, endpoint, call, loops>>

\* api.rs retry_task -> TaskQueue::retry_task (public), by a client that saw the
\* task Failed (task.get) and asks again each time it fails
RetryFailedTask(task_id) ==
    /\ requests.count < MaxRetryRequests
    /\ tasks[task_id].status = Failed
    /\ HasRoom(1)
    /\ queue' = Append(queue, Retry(task_id))
    /\ requests' = [requests EXCEPT !.count = @ + 1, !.retry = @ \cup {task_id}]
    /\ UNCHANGED <<tasks, workflows, workflow_phases, task_logs, webhook_deliveries,
                   result_queue, workers, webhook_worker, endpoint, call, loops>>

\* api.rs retry_task -> TaskQueue::retry_task (public): send Retry
RetryRequest(task_id) ==
    /\ requests.count < MaxRequests
    /\ HasRoom(1)
    /\ queue' = Append(queue, Retry(task_id))
    /\ requests' = [requests EXCEPT !.count = @ + 1, !.retry = @ \cup {task_id}]
    /\ UNCHANGED <<tasks, workflows, workflow_phases, task_logs, webhook_deliveries,
                   result_queue, workers, webhook_worker, endpoint, call, loops>>

\* the client's previous call, if any, has returned Ok
has_returned(c) == IF c.op = "none" THEN TRUE ELSE c.state = "ok"

\* Sender::send on the bounded command channel, by the thread of a client call:
\* the command is enqueued if there is room; otherwise the thread waits in send
\* (crossbeam's send returns Err only when the channel is disconnected, and the
\* TaskQueue holds the receiver for as long as it lives)
Send(op, command) ==
    /\ has_returned(call)
    /\ IF HasRoom(1)
       THEN /\ queue' = Append(queue, command)
            /\ call' = [op |-> op, command |-> command, state |-> "ok"]
       ELSE /\ queue' = queue
            /\ call' = [op |-> op, command |-> command, state |-> "blocked"]

\* a thread waiting in send is woken once the channel has room
SendUnblocks ==
    /\ call.op # "none"
    /\ call.state = "blocked"
    /\ HasRoom(1)
    /\ queue' = Append(queue, call.command)
    /\ call' = [call EXCEPT !.state = "ok"]
    /\ UNCHANGED <<tasks, workflows, workflow_phases, task_logs, webhook_deliveries,
                   result_queue, workers, webhook_worker, endpoint, requests, loops>>

\* api.rs create_task: insert_task, then TaskQueue::submit_task
SubmitTask(priority, dependencies, webhook_url) ==
    /\ NewTaskId \in TaskIds
    /\ tasks' = insert_task(tasks,
           AsyncTask(NewTaskId, priority, dependencies, webhook_url, None, NULL, NewTaskId))
    /\ Send("submit_task", Execute(NewTaskId))
    /\ UNCHANGED <<workflows, workflow_phases, task_logs, webhook_deliveries,
                   result_queue, workers, webhook_worker, endpoint, requests, loops>>

\* api.rs cancel_task -> TaskQueue::cancel_task (public)
CancelTask(task_id) ==
    /\ requests.count < MaxRequests
    /\ Send("cancel_task", Cancel(task_id))
    /\ requests' = [requests EXCEPT !.count = @ + 1]
    /\ UNCHANGED <<tasks, workflows, workflow_phases, task_logs, webhook_deliveries,
                   result_queue, workers, webhook_worker, endpoint, loops>>

\* api.rs retry_task -> TaskQueue::retry_task (public)
RetryTask(task_id) ==
    /\ requests.count < MaxRequests
    /\ Send("retry_task", Retry(task_id))
    /\ requests' = [requests EXCEPT !.count = @ + 1, !.retry = @ \cup {task_id}]
    /\ UNCHANGED <<tasks, workflows, workflow_phases, task_logs, webhook_deliveries,
                   result_queue, workers, webhook_worker, endpoint, loops>>

\* AsyncSystem::shutdown -> TaskQueue::shutdown is called: its loop has sent nothing yet
CallShutdown ==
    /\ call = no_call
    /\ call' = [op |-> "shutdown", sent |-> 0, state |-> "sending"]
    /\ UNCHANGED <<tasks, workflows, workflow_phases, task_logs, webhook_deliveries,
                   queue, result_queue, workers, webhook_worker, endpoint, requests, loops>>

\* one pass of the loop of TaskQueue::shutdown: send(TaskCommand::Shutdown), which
\* waits while the channel is full; after worker_count passes it returns Ok
ShutdownSend ==
    /\ call.op = "shutdown"
    /\ call.state = "sending"
    /\ HasRoom(1)
    /\ queue' = Append(queue, Shutdown)
    /\ call' = [call EXCEPT !.sent = @ + 1,
                            !.state = IF call.sent + 1 = NumWorkers THEN "ok" ELSE "sending"]
    /\ UNCHANGED <<tasks, workflows, workflow_phases, task_logs, webhook_deliveries,
                   result_queue, workers, webhook_worker, endpoint, requests, loops>>

\* WorkflowExecutor::create_workflow
CreateWorkflow ==
    /\ NewWorkflowId \in WorkflowIds
    /\ workflows' = workflows @@ (NewWorkflowId :> Workflow(NewWorkflowId))
    /\ UNCHANGED <<tasks, workflow_phases, task_logs, webhook_deliveries, queue,
                   result_queue, workers, webhook_worker, endpoint, requests, call, loops>>

\* WorkflowExecutor::add_phase: insert_phase fails on a duplicate (workflow_id, phase_id)
AddPhase(workflow_id, phase_id, depends_on) ==
    /\ <<workflow_id, phase_id>> \notin DOMAIN workflow_phases
    /\ workflow_phases' = workflow_phases @@
           (<<workflow_id, phase_id>> :> WorkflowPhase(workflow_id, phase_id, depends_on))
    /\ UNCHANGED <<tasks, workflows, task_logs, webhook_deliveries, queue,
                   result_queue, workers, webhook_worker, endpoint, requests, call, loops>>

\* WorkflowExecutor::add_phase_task: with_workflow, with_phase, insert_task (no submit)
AddPhaseTask(workflow_id, phase_id, priority, dependencies, webhook_url) ==
    /\ NewTaskId \in TaskIds
    /\ tasks' = insert_task(tasks,
           AsyncTask(NewTaskId, priority, dependencies, webhook_url,
                     workflow_id, phase_id, NewTaskId))
    /\ UNCHANGED <<workflows, workflow_phases, task_logs, webhook_deliveries, queue,
                   result_queue, workers, webhook_worker, endpoint, requests, call, loops>>

\* WorkflowExecutor::start_workflow
StartWorkflow(workflow_id) ==
    LET submits == SelectSubmits(workflow_phases, get_workflow_tasks(tasks, workflow_id))
    IN  /\ requests.starts < MaxStarts
        /\ HasRoom(Len(submits))
        /\ workflows' = update_workflow_status(workflows, workflow_id, Running)
        /\ queue' = queue \o submits
        /\ requests' = [requests EXCEPT !.starts = @ + 1]
        /\ UNCHANGED <<tasks, workflow_phases, task_logs, webhook_deliveries,
                       result_queue, workers, webhook_worker, endpoint, call, loops>>

\* api.rs start_workflow -> WorkflowExecutor::start_workflow, with the answer the
\* handler gives: update_workflow_status returns Ok whether or not a row matched
StartWorkflowRequest(workflow_id) ==
    LET submits == SelectSubmits(workflow_phases, get_workflow_tasks(tasks, workflow_id))
    IN  /\ has_returned(call)
        /\ requests.starts < MaxStarts
        /\ HasRoom(Len(submits))
        /\ workflows' = update_workflow_status(workflows, workflow_id, Running)
        /\ queue' = queue \o submits
        /\ requests' = [requests EXCEPT !.starts = @ + 1]
        /\ call' = [op |-> "start_workflow", workflow_id |-> workflow_id, state |-> "ok"]
        /\ UNCHANGED <<tasks, workflow_phases, task_logs, webhook_deliveries,
                       result_queue, workers, webhook_worker, endpoint, loops>>

\* api.rs add_workflow_phase -> WorkflowExecutor::add_phase, with the answer the
\* handler gives: the error of insert_phase, or success
AddPhaseRequest(workflow_id, phase_id, depends_on) ==
    LET phase == WorkflowPhase(workflow_id, phase_id, depends_on)
    IN  /\ workflow_phases' = insert_phase(workflow_phases, phase)
        /\ call' = [op |-> "add_phase", phase |-> phase,
                    state |-> IF insert_phase_fails(workflow_phases, phase)
                              THEN "error" ELSE "ok"]
        /\ UNCHANGED <<tasks, workflows, task_logs, webhook_deliveries, queue,
                       result_queue, workers, webhook_worker, endpoint, requests, loops>>

\* Database::update_phase_status called on the Store directly (as in
\* test_workflow_phases); no component of the engine calls it
UpdatePhaseStatus(workflow_id, phase_id, status) ==
    /\ <<workflow_id, phase_id>> \in DOMAIN workflow_phases
    /\ workflow_phases[<<workflow_id, phase_id>>].status # status
    /\ workflow_phases' = update_phase_status(workflow_phases, workflow_id, phase_id, status)
    /\ UNCHANGED <<tasks, workflows, task_logs, webhook_deliveries, queue,
                   result_queue, workers, webhook_worker, endpoint, requests, call, loops>>

(***************************************************************************)
(* Worker loop (TaskQueue::start), one action per received command         *)
(***************************************************************************)
Receives(w, type) ==
    /\ workers[w].state = "idle"
    /\ queue # << >>
    /\ Head(queue).type = type

\* Ok(TaskCommand::Execute(task_id)) => execute_task, up to the runner call
WorkerExecute(w) ==
    /\ Receives(w, "Execute")
    /\ queue' = Tail(queue)
    /\ LET task_id == Head(queue).task_id
       IN  IF ~has_task(tasks, task_id)
           THEN UNCHANGED <<tasks, task_logs, workers>>
           ELSE /\ tasks' = update_task_status(tasks, task_id, Running)
                /\ task_logs' = add_task_log(task_logs, task_id, "Task started")
                /\ workers' = [workers EXCEPT ![w] = [state |-> "running", task_id |-> task_id]]
    /\ UNCHANGED <<workflows, workflow_phases, webhook_deliveries, result_queue,
                   webhook_worker, endpoint, requests, call, loops>>

\* execute_task as it would be if the worker wrote the runner's outcome to the
\* task row itself before sending the result
WorkerFinish_writing_outcome(w, outcome) ==
    /\ workers[w].state = "running"
    /\ tasks' = IF outcome.success
                THEN update_task_result(tasks, workers[w].task_id, outcome.result)
                ELSE update_task_error(tasks, workers[w].task_id, outcome.error)
    /\ result_queue' = Append(result_queue, TaskResult(workers[w].task_id, outcome))
    /\ workers' = [workers EXCEPT ![w] = idle]
    /\ UNCHANGED <<workflows, workflow_phases, task_logs, webhook_deliveries,
                   queue, webhook_worker, endpoint, requests, call, loops>>

\* execute_task, from the return of the runner: result_tx.send(result)
WorkerFinish(w, outcome) ==
    /\ workers[w].state = "running"
    /\ result_queue' = Append(result_queue, TaskResult(workers[w].task_id, outcome))
    /\ workers' = [workers EXCEPT ![w] = idle]
    /\ UNCHANGED <<tasks, workflows, workflow_phases, task_logs, webhook_deliveries,
                   queue, webhook_worker, endpoint, requests, call, loops>>

\* Ok(TaskCommand::Cancel(task_id)) => cancel_task (private)
WorkerCancel(w) ==
    /\ Receives(w, "Cancel")
    /\ queue' = Tail(queue)
    /\ tasks' = update_task_status(tasks, Head(queue).task_id, Cancelled)
    /\ task_logs' = add_task_log(task_logs, Head(queue).task_id, "Task cancelled")
    /\ UNCHANGED <<workflows, workflow_phases, webhook_deliveries, result_queue,
                   workers, webhook_worker, endpoint, requests, call, loops>>

\* the Retry handler as it would be without the can_retry check
WorkerRetry_without_can_retry(w) ==
    /\ Receives(w, "Retry")
    /\ queue' = Tail(queue)
    /\ LET task_id == Head(queue).task_id
       IN  IF ~has_task(tasks, task_id)
           THEN UNCHANGED <<tasks, task_logs>>
           ELSE /\ tasks' = update_task_status(tasks, task_id, Pending)
                /\ task_logs' = add_task_log(task_logs, task_id, "Task retry scheduled")
    /\ UNCHANGED <<workflows, workflow_phases, webhook_deliveries, result_queue,
                   workers, webhook_worker, endpoint, requests, call, loops>>

\* Ok(TaskCommand::Retry(task_id)) => retry_task (private)
WorkerRetry(w) ==
    /\ Receives(w, "Retry")
    /\ queue' = Tail(queue)
    /\ LET task_id == Head(queue).task_id
       IN  IF ~has_task(tasks, task_id) \/ ~can_retry(get_task(tasks, task_id))
           THEN UNCHANGED <<tasks, task_logs>>
           ELSE /\ tasks' = update_task_status(tasks, task_id, Pending)
                /\ task_logs' = add_task_log(task_logs, task_id, "Task retry scheduled")
    /\ UNCHANGED <<workflows, workflow_phases, webhook_deliveries, result_queue,
                   workers, webhook_worker, endpoint, requests, call, loops>>

\* the worker loop as it would be if Shutdown were dropped without a break
WorkerShutdown_without_break(w) ==
    /\ Receives(w, "Shutdown")
    /\ queue' = Tail(queue)
    /\ UNCHANGED <<tasks, workflows, workflow_phases, task_logs, webhook_deliveries,
                   result_queue, workers, webhook_worker, endpoint, requests, call, loops>>

\* Ok(TaskCommand::Shutdown) => break
WorkerShutdown(w) ==
    /\ Receives(w, "Shutdown")
    /\ queue' = Tail(queue)
    /\ workers' = [workers EXCEPT ![w] = exited]
    /\ UNCHANGED <<tasks, workflows, workflow_phases, task_logs, webhook_deliveries,
                   result_queue, webhook_worker, endpoint, requests, call, loops>>

(***************************************************************************)
(* Scheduler loop and result processor loop (TaskQueue::start)             *)
(***************************************************************************)
\* the tick as it would be if the scheduler marked the tasks it sends as Running
SchedulerTick_marking_running ==
    LET sends == schedule_pending_tasks(tasks, workflow_phases)
    IN  /\ loops.scheduler = "running"
        /\ sends # << >>
        /\ HasRoom(Len(sends))
        /\ queue' = queue \o sends
        /\ tasks' = [t \in DOMAIN tasks |->
                        IF \E i \in 1..Len(sends) : sends[i].task_id = t
                        THEN [tasks[t] EXCEPT !.status = Running, !.started_at = Now]
                        ELSE tasks[t]]
        /\ UNCHANGED <<workflows, workflow_phases, task_logs, webhook_deliveries,
                       result_queue, workers, webhook_worker, endpoint, requests, call, loops>>

\* one pass of the scheduler loop: schedule_pending_tasks
SchedulerTick ==
    LET sends == schedule_pending_tasks(tasks, workflow_phases)
    IN  /\ loops.scheduler = "running"
        /\ sends # << >>
        /\ HasRoom(Len(sends))
        /\ queue' = queue \o sends
        /\ UNCHANGED <<tasks, workflows, workflow_phases, task_logs, webhook_deliveries,
                       result_queue, workers, webhook_worker, endpoint, requests, call, loops>>

\* one pass of the result processor loop: process_task_result
ProcessResult ==
    /\ loops.result_processor = "running"
    /\ result_queue # << >>
    /\ result_queue' = Tail(result_queue)
    /\ LET result == Head(result_queue)
           written == IF result.success
                      THEN (IF result.result # NULL
                            THEN update_task_result(tasks, result.task_id, result.result)
                            ELSE tasks)
                      ELSE (IF result.error # NULL
                            THEN update_task_error(tasks, result.task_id, result.error)
                            ELSE tasks)
       IN  /\ tasks' = written
           /\ task_logs' =
                 IF result.success /\ result.result # NULL
                 THEN add_task_log(task_logs, result.task_id, "Task completed successfully")
                 ELSE IF ~result.success /\ result.error # NULL
                 THEN add_task_log(task_logs, result.task_id, "Task failed")
                 ELSE task_logs
           /\ workflows' =
                 IF has_task(written, result.task_id)
                    /\ get_task(written, result.task_id).workflow_id # None
                 THEN rollup_workflow_status(written, workflows,
                                             get_task(written, result.task_id).workflow_id)
                 ELSE workflows
    /\ UNCHANGED <<workflow_phases, webhook_deliveries, queue, workers,
                   webhook_worker, endpoint, requests, call, loops>>


(***************************************************************************)
(* Store failures: a call of the Database returns Err                      *)
(***************************************************************************)
\* execute_task when get_task or update_task_status returns Err: the error is
\* logged and the handler returns; the worker loop goes on to its next recv
WorkerExecuteStoreFailure(w) ==
    /\ Receives(w, "Execute")
    /\ queue' = Tail(queue)
    /\ UNCHANGED <<tasks, workflows, workflow_phases, task_logs, webhook_deliveries,
                   result_queue, workers, webhook_worker, endpoint, requests, call, loops>>

\* schedule_pending_tasks when a row returned by the query of get_pending_tasks
\* cannot be read: row_to_task returns Err inside query_map's closure, which
\* unwraps it; the panic ends the tokio task that runs the scheduler loop
SchedulerTickStoreFailure ==
    /\ loops.scheduler = "running"
    /\ get_pending_tasks(tasks, SchedulerLimit) # << >>
    /\ loops' = [loops EXCEPT !.scheduler = "panicked"]
    /\ UNCHANGED <<tasks, workflows, workflow_phases, task_logs, webhook_deliveries,
                   queue, result_queue, workers, webhook_worker, endpoint, requests, call>>

\* process_task_result when update_task_result / update_task_error returns
\* Err: `?` returns it to the loop, which logs it and goes on; the result is gone
ProcessResultStoreFailure ==
    /\ loops.result_processor = "running"
    /\ result_queue # << >>
    /\ result_queue' = Tail(result_queue)
    /\ UNCHANGED <<tasks, workflows, workflow_phases, task_logs, webhook_deliveries,
                   queue, workers, webhook_worker, endpoint, requests, call, loops>>

(***************************************************************************)
(* webhook.rs: the delivery pipeline                                       *)
(***************************************************************************)
\* LIMIT of the pending-deliveries query
WebhookQueryLimit == 100

\* send_webhook: Ok iff status >= 200 && status < 300
is_success_status(status) == status >= 200 /\ status < 300

\* the NOT EXISTS subquery of find_pending_webhooks
has_2xx_delivery(D, task_id) ==
    \E i \in 1..Len(D) :
        /\ D[i].task_id = task_id
        /\ D[i].status_code # None
        /\ D[i].status_code >= 200
        /\ D[i].status_code < 300

\* the WHERE clause of find_pending_webhooks with the NOT EXISTS subquery left out
needs_delivery_without_not_exists(T, D, id) ==
    /\ T[id].webhook_url # NULL
    /\ T[id].status \in {Completed, Failed}

\* the WHERE clause of find_pending_webhooks
needs_delivery(T, D, id) ==
    /\ T[id].webhook_url # NULL
    /\ T[id].status \in {Completed, Failed}
    /\ ~has_2xx_delivery(D, id)

RECURSIVE IdsOf(_)
IdsOf(rows) == IF rows = << >> THEN << >> ELSE <<Head(rows).id>> \o IdsOf(Tail(rows))

\* WebhookManager::find_pending_webhooks (rows listed in creation order; the
\* ORDER BY completed_at of the query is not modelled)
find_pending_webhooks(T, D) ==
    Limit(IdsOf(SortCreated({T[id] : id \in {i \in DOMAIN T : needs_delivery(T, D, i)}})),
          WebhookQueryLimit)

\* WebhookManager::log_delivery: Ok(response) logs Some(status), Err logs None
log_delivery(D, task_id, status_code) ==
    Append(D, [task_id |-> task_id, status_code |-> status_code,
               delivered_at |-> IF status_code # None THEN Now ELSE NULL])

\* deliver_webhook / retry_webhook logging the status of every HTTP answer
logged_status_of_every_answer(response) == response

\* what deliver_webhook / retry_webhook log for an HTTP answer
logged_status(response) == IF is_success_status(response) THEN response ELSE None

\* the rows of s in reverse order
Reverse(s) == [i \in 1..Len(s) |-> s[Len(s) - i + 1]]

\* WebhookManager::get_delivery_history: the task's rows, ORDER BY attempted_at DESC
get_delivery_history(D, task_id) ==
    Reverse(SelectSeq(D, LAMBDA row : row.task_id = task_id))

\* the answers the endpoint gave to the POSTs for task_id, oldest first
calls_for(E, task_id) ==
    IF task_id \in DOMAIN E.calls THEN E.calls[task_id] ELSE << >>

\* HTTP statuses the endpoint answers with: a 2xx one and a failure
EndpointResponses == {200, 500}

\* the endpoint answers a POST for task_id with response; it answers with a
\* failure only while it has failures left
EndpointAnswers(task_id, response) ==
    /\ \/ is_success_status(response)
       \/ endpoint.failures_left > 0
    /\ endpoint' =
          [failures_left |-> IF is_success_status(response) THEN endpoint.failures_left
                             ELSE endpoint.failures_left - 1,
           calls |-> IF task_id \in DOMAIN endpoint.calls
                     THEN [endpoint.calls EXCEPT ![task_id] = Append(@, response)]
                     ELSE endpoint.calls @@ (task_id :> <<response>>)]

sleeping == [state |-> "sleep", todo |-> << >>, task_id |-> None, retry |-> 0]

\* the worker loop moves on to the next task id of this tick, or sleeps
next_delivery(todo) ==
    IF todo = << >> THEN sleeping
    ELSE [state |-> "deliver", todo |-> todo, task_id |-> None, retry |-> 0]

\* WebhookManager::start_worker: one wake-up of the loop, the query
WebhookTick ==
    /\ webhook_worker.state = "sleep"
    /\ find_pending_webhooks(tasks, webhook_deliveries) # << >>
    /\ webhook_worker' = next_delivery(find_pending_webhooks(tasks, webhook_deliveries))
    /\ UNCHANGED <<tasks, workflows, workflow_phases, task_logs, webhook_deliveries,
                   queue, result_queue, workers, endpoint, requests, call, loops>>

\* deliver_webhook for a row that is gone, has no webhook_url or is not complete
WebhookSkip ==
    /\ webhook_worker.state = "deliver"
    /\ LET task_id == Head(webhook_worker.todo)
       IN  \/ ~has_task(tasks, task_id)
           \/ get_task(tasks, task_id).webhook_url = NULL
           \/ ~is_complete(get_task(tasks, task_id))
    /\ webhook_worker' = next_delivery(Tail(webhook_worker.todo))
    /\ UNCHANGED <<tasks, workflows, workflow_phases, task_logs, webhook_deliveries,
                   queue, result_queue, workers, endpoint, requests, call, loops>>

\* deliver_webhook: the first send_webhook and its log_delivery
WebhookDeliver(response) ==
    /\ webhook_worker.state = "deliver"
    /\ LET task_id == Head(webhook_worker.todo)
       IN  /\ has_task(tasks, task_id)
           /\ get_task(tasks, task_id).webhook_url # NULL
           /\ is_complete(get_task(tasks, task_id))
           /\ EndpointAnswers(task_id, response)
           /\ webhook_deliveries' =
                 log_delivery(webhook_deliveries, task_id, logged_status(response))
           /\ webhook_worker' =
                 IF is_success_status(response) \/ WebhookMaxRetries < 1
                 THEN next_delivery(Tail(webhook_worker.todo))
                 ELSE [webhook_worker EXCEPT !.state = "retry", !.task_id = task_id,
                                             !.retry = 1]
    /\ UNCHANGED <<tasks, workflows, workflow_phases, task_logs, queue, result_queue,
                   workers, requests, call, loops>>

\* retry_webhook: one iteration of for retry in 1..=max_retries
WebhookRetry(response) ==
    /\ webhook_worker.state = "retry"
    /\ EndpointAnswers(webhook_worker.task_id, response)
    /\ webhook_deliveries' =
          log_delivery(webhook_deliveries, webhook_worker.task_id, logged_status(response))
    /\ webhook_worker' =
          IF is_success_status(response) \/ webhook_worker.retry >= WebhookMaxRetries
          THEN next_delivery(Tail(webhook_worker.todo))
          ELSE [webhook_worker EXCEPT !.retry = @ + 1]
    /\ UNCHANGED <<tasks, workflows, workflow_phases, task_logs, queue, result_queue,
                   workers, requests, call, loops>>

(***************************************************************************)
(* Specifications                                                          *)
(***************************************************************************)
\* the state after init_system: empty tables and channels, all loops waiting
Init ==
    /\ tasks = << >>
    /\ workflows = << >>
    /\ workflow_phases = << >>
    /\ task_logs = << >>
    /\ webhook_deliveries = << >>
    /\ queue = << >>
    /\ result_queue = << >>
    /\ workers = [w \in WorkerIds |-> idle]
    /\ webhook_worker = sleeping
    /\ endpoint = [failures_left |-> MaxEndpointFailures, calls |-> << >>]
    /\ requests = [count |-> 0, retry |-> {}, starts |-> 0]
    /\ call = no_call
    /\ loops = spawned

\* dependencies a client may name: none, or one existing task
DependencyInputs == {{}} \cup {{d} : d \in DOMAIN tasks}

\* depends_on a client names for a phase: p1 is a first phase, any other phase follows p1
DependsOnInputs(phase_id) == IF phase_id = "p1" THEN {{}} ELSE {{"p1"}}

\* The engine on standalone tasks: request handlers, workers, scheduler,
\* result processor.
Next ==
    \/ \E d \in DependencyInputs : CreateTask(Normal, d, NULL)
    \/ \E t \in DOMAIN tasks : CancelRequest(t)
    \/ \E t \in DOMAIN tasks : RetryRequest(t)
    \/ \E w \in WorkerIds : WorkerExecute(w)
    \/ \E w \in WorkerIds, o \in RunnerOutcomes : WorkerFinish(w, o)
    \/ \E w \in WorkerIds : WorkerCancel(w)
    \/ \E w \in WorkerIds : WorkerRetry(w)
    \/ SchedulerTick
    \/ ProcessResult

Spec == Init /\ [][Next]_vars

\* The life of single tasks: the engine with the first worker of the pool;
\* every status write of every component is reached (create, Execute, result,
\* Cancel, Retry, re-Execute by the scheduler).
NextLifecycle ==
    \/ /\ Cardinality(DOMAIN tasks) < MaxLifecycleTasks
       /\ \E d \in DependencyInputs : CreateTask(Normal, d, NULL)
    \/ \E t \in DOMAIN tasks : CancelRequest(t)
    \/ \E t \in DOMAIN tasks : RetryRequest(t)
    \/ WorkerExecute(FirstWorker)
    \/ \E o \in RunnerOutcomes : WorkerFinish(FirstWorker, o)
    \/ WorkerCancel(FirstWorker)
    \/ WorkerRetry(FirstWorker)
    \/ SchedulerTick
    \/ ProcessResult

SpecLifecycle == Init /\ [][NextLifecycle]_vars

\* The engine on workflows: the workflow executor, the first worker of the
\* pool, scheduler, result processor, and Cancel requests.
NextWorkflow ==
    \/ CreateWorkflow
    \/ \E w \in DOMAIN workflows, p \in PhaseIds :
          \E d \in DependsOnInputs(p) : AddPhase(w, p, d)
    \/ \E w \in DOMAIN workflows, p \in PhaseIds :
          AddPhaseTask(w, p, Normal, {}, NULL)
    \/ \E w \in DOMAIN workflows : StartWorkflow(w)
    \/ \E w \in DOMAIN workflows, p \in PhaseIds : UpdatePhaseStatus(w, p, Completed)
    \/ \E t \in DOMAIN tasks : CancelRequest(t)
    \/ WorkerExecute(FirstWorker)
    \/ \E o \in RunnerOutcomes : WorkerFinish(FirstWorker, o)
    \/ WorkerCancel(FirstWorker)
    \/ SchedulerTick
    \/ ProcessResult

SpecWorkflow == Init /\ [][NextWorkflow]_vars

\* The webhook pipeline next to the engine: tasks with a webhook_url are
\* created, run, cancelled and retried (by the first worker of the pool) while
\* the webhook worker delivers.  The webhook worker's loop is scheduled fairly;
\* the endpoint answers 2xx once its failures are used up.
NextWebhook ==
    \/ \E u \in {NULL, "url"} : CreateTask(Normal, {}, u)
    \/ \E t \in DOMAIN tasks : CancelRequest(t)
    \/ \E t \in DOMAIN tasks : RetryRequest(t)
    \/ WorkerExecute(FirstWorker)
    \/ \E o \in RunnerOutcomes : WorkerFinish(FirstWorker, o)
    \/ WorkerCancel(FirstWorker)
    \/ WorkerRetry(FirstWorker)
    \/ ProcessResult
    \/ WebhookTick
    \/ WebhookSkip
    \/ \E r \in EndpointResponses : WebhookDeliver(r)
    \/ \E r \in EndpointResponses : WebhookRetry(r)

FairnessWebhook ==
    /\ WF_vars(WebhookTick)
    /\ WF_vars(WebhookSkip)
    /\ WF_vars(\E r \in EndpointResponses : WebhookDeliver(r))
    /\ WF_vars(\E r \in EndpointResponses : WebhookRetry(r))

SpecWebhook == Init /\ [][NextWebhook]_vars /\ FairnessWebhook

\* A workflow whose phases form the chain p1 <- p2 <- p3 with one task each:
\* the state after create_workflow, three add_phase and three add_phase_task
\* calls, before start_workflow.
Chain == <<"p1", "p2", "p3">>

InitChain ==
    LET workflow_id == NewWorkflowIdOf(<< >>)
        position(phase_id) == CHOOSE i \in DOMAIN Chain : Chain[i] = phase_id
    IN  /\ tasks = [i \in DOMAIN Chain |->
                       AsyncTask(i, Normal, {}, NULL, workflow_id, Chain[i], i)]
        /\ workflows = (workflow_id :> Workflow(workflow_id))
        /\ workflow_phases =
              [k \in {<<workflow_id, Chain[i]>> : i \in DOMAIN Chain} |->
                  WorkflowPhase(workflow_id, k[2],
                      IF position(k[2]) = 1 THEN {} ELSE {Chain[position(k[2]) - 1]})]
        /\ task_logs = << >>
        /\ webhook_deliveries = << >>
        /\ queue = << >>
        /\ result_queue = << >>
        /\ workers = [w \in WorkerIds |-> idle]
        /\ webhook_worker = sleeping
        /\ endpoint = [failures_left |-> MaxEndpointFailures, calls |-> << >>]
        /\ requests = [count |-> 0, retry |-> {}, starts |-> 0]
        /\ call = no_call
        /\ loops = spawned

\* the shipped runner (simulate_task_execution): always success with a result
Simulated == [success |-> TRUE, result |-> "result", error |-> NULL]

\* The engine on the chain workflow: start_workflow, workers with the shipped
\* runner, scheduler and result processor, all scheduled fairly; the Store's
\* update_phase_status may be called from outside the engine at any time or never.
NextChain ==
    \/ \E w \in DOMAIN workflows : StartWorkflow(w)
    \/ \E w \in WorkerIds : WorkerExecute(w)
    \/ \E w \in WorkerIds : WorkerFinish(w, Simulated)
    \/ SchedulerTick
    \/ ProcessResult
    \/ \E w \in DOMAIN workflows, p \in {Chain[i] : i \in DOMAIN Chain} :
          UpdatePhaseStatus(w, p, Completed)

FairnessChain ==
    /\ WF_vars(\E w \in DOMAIN workflows : StartWorkflow(w))
    /\ \A w \in WorkerIds : WF_vars(WorkerExecute(w))
    /\ \A w \in WorkerIds : WF_vars(WorkerFinish(w, Simulated))
    /\ WF_vars(SchedulerTick)
    /\ WF_vars(ProcessResult)

SpecChain == InitChain /\ [][NextChain]_vars /\ FairnessChain

\* One standalone task whose runs may fail, a client that sends Retry whenever
\* it sees the task Failed, one worker, the scheduler and the result processor.
NextRetry ==
    \/ /\ Cardinality(DOMAIN tasks) < MaxLifecycleTasks
       /\ CreateTask(Normal, {}, NULL)
    \/ \E t \in DOMAIN tasks : RetryFailedTask(t)
    \/ WorkerExecute(FirstWorker)
    \/ \E o \in RunnerOutcomes : WorkerFinish(FirstWorker, o)
    \/ WorkerRetry(FirstWorker)
    \/ SchedulerTick
    \/ ProcessResult

SpecRetry == Init /\ [][NextRetry]_vars

\* Client calls that send on the command channel, followed call by call, with
\* one worker, the scheduler and the result processor.
NextBackpressure ==
    \/ SubmitTask(Normal, {}, NULL)
    \/ \E t \in DOMAIN tasks : CancelTask(t)
    \/ \E t \in DOMAIN tasks : RetryTask(t)
    \/ SendUnblocks
    \/ WorkerExecute(FirstWorker)
    \/ \E o \in RunnerOutcomes : WorkerFinish(FirstWorker, o)
    \/ WorkerCancel(FirstWorker)
    \/ WorkerRetry(FirstWorker)
    \/ SchedulerTick
    \/ ProcessResult

SpecBackpressure == Init /\ [][NextBackpressure]_vars

\* Teardown: standalone tasks, the worker pool, the scheduler, the result
\* processor, and one call of shutdown() at any moment.
NextShutdown ==
    \/ /\ Cardinality(DOMAIN tasks) < MaxLifecycleTasks
       /\ CreateTask(Normal, {}, NULL)
    \/ CallShutdown
    \/ ShutdownSend
    \/ \E w \in WorkerIds : WorkerExecute(w)
    \/ \E w \in WorkerIds : WorkerFinish(w, Simulated)
    \/ \E w \in WorkerIds : WorkerShutdown(w)
    \/ SchedulerTick
    \/ ProcessResult

\* the thread in shutdown() keeps running, and so do the worker loops, the
\* scheduler loop and the result processor loop
FairnessShutdown ==
    /\ WF_vars(ShutdownSend)
    /\ \A w \in WorkerIds : WF_vars(WorkerExecute(w))
    /\ \A w \in WorkerIds : WF_vars(WorkerFinish(w, Simulated))
    /\ \A w \in WorkerIds : WF_vars(WorkerShutdown(w))
    /\ WF_vars(SchedulerTick)
    /\ WF_vars(ProcessResult)

SpecShutdown == Init /\ [][NextShutdown]_vars /\ FairnessShutdown

\* Requests that name any task id or workflow id, known to the Store or not,
\* with one worker, the scheduler and the result processor.
NextUnknownIds ==
    \/ /\ Cardinality(DOMAIN tasks) < MaxLifecycleTasks
       /\ SubmitTask(Normal, {}, NULL)
    \/ CreateWorkflow
    \/ \E t \in TaskIds : CancelTask(t)
    \/ \E t \in TaskIds : RetryTask(t)
    \/ \E w \in WorkflowIds : StartWorkflowRequest(w)
    \/ SendUnblocks
    \/ WorkerExecute(FirstWorker)
    \/ \E o \in RunnerOutcomes : WorkerFinish(FirstWorker, o)
    \/ WorkerCancel(FirstWorker)
    \/ WorkerRetry(FirstWorker)
    \/ SchedulerTick
    \/ ProcessResult

SpecUnknownIds == Init /\ [][NextUnknownIds]_vars

(***************************************************************************)
(* The Store's queries on given table contents                             *)
(***************************************************************************)
\* the system right after init_system, on a database that holds these rows
StoreHolds(T, W, P) ==
    /\ tasks = T
    /\ workflows = W
    /\ workflow_phases = P
    /\ task_logs = << >>
    /\ webhook_deliveries = << >>
    /\ queue = << >>
    /\ result_queue = << >>
    /\ workers = [w \in WorkerIds |-> idle]
    /\ webhook_worker = sleeping
    /\ endpoint = [failures_left |-> MaxEndpointFailures, calls |-> << >>]
    /\ requests = [count |-> 0, retry |-> {}, starts |-> 0]
    /\ call = no_call
    /\ loops = spawned

\* a task row read back from the Store with these columns
TaskRow(id, status, retry_count, max_retries) ==
    [AsyncTask(id, Normal, {}, NULL, None, NULL, id) EXCEPT
        !.status = status, !.retry_count = retry_count, !.max_retries = max_retries]

\* one task row with any status, retry_count and max_retries
InitCanRetry ==
    \E status \in TaskStatus, retry_count \in 0..MaxRetryCount, max_retries \in 0..MaxMaxRetries :
        StoreHolds((1 :> TaskRow(1, status, retry_count, max_retries)), << >>, << >>)

\* get_task(id) followed by can_retry() on the row
CallCanRetry(task_id) ==
    /\ call = no_call
    /\ has_task(tasks, task_id)
    /\ call' = [op |-> "can_retry", task_id |-> task_id,
                answer |-> can_retry(get_task(tasks, task_id))]
    /\ UNCHANGED <<tasks, workflows, workflow_phases, task_logs, webhook_deliveries,
                   queue, result_queue, workers, webhook_worker, endpoint, requests, loops>>

NextCanRetry == \E t \in DOMAIN tasks : CallCanRetry(t)

SpecCanRetry == InitCanRetry /\ [][NextCanRetry]_vars

\* one task row with any status, retry_count and max_retries, and with each of
\* started_at, completed_at, result and error written or not
InitRetryCommand ==
    \E status \in TaskStatus, retry_count \in 0..MaxRetryCount, max_retries \in 0..MaxMaxRetries,
       started_at \in {NULL, Now}, completed_at \in {NULL, Now},
       result \in {NULL, "result"}, error \in {NULL, "error"} :
        StoreHolds((1 :> [TaskRow(1, status, retry_count, max_retries) EXCEPT
                             !.started_at = started_at, !.completed_at = completed_at,
                             !.result = result, !.error = error]),
                   << >>, << >>)

\* Retry requests for the stored task id and for ids without a row, and the
\* worker that handles them
NextRetryCommand ==
    \/ \E t \in TaskIds : RetryRequest(t)
    \/ WorkerRetry(FirstWorker)

SpecRetryCommand == InitRetryCommand /\ [][NextRetryCommand]_vars

\* the priorities insert_task can store (TaskPriority::as_i32)
TaskPriority == {Low, Normal, High, Critical}

\* the orders in which n rows can have been created (created_at is distinct per row)
CreationOrders(n) == {f \in [1..n -> 1..n] : \A i, j \in 1..n : f[i] = f[j] => i = j}

\* the statuses of the rows given to get_pending_tasks: Pending, and two of the
\* statuses its WHERE clause leaves out
QueriedStatuses == {Pending, Running, Completed}

\* up to MaxStoreTasks task rows, each with one of these statuses and any
\* priority, created in any order
InitPendingQuery ==
    \E n \in 0..MaxStoreTasks :
        \E status \in [1..n -> QueriedStatuses], priority \in [1..n -> TaskPriority],
           created_at \in CreationOrders(n) :
            StoreHolds([id \in 1..n |->
                           [AsyncTask(id, priority[id], {}, NULL, None, NULL, created_at[id])
                               EXCEPT !.status = status[id]]],
                       << >>, << >>)

\* Database::get_pending_tasks(limit) called on the Store
CallGetPendingTasks(limit) ==
    /\ call = no_call
    /\ call' = [op |-> "get_pending_tasks", limit |-> limit,
                answer |-> get_pending_tasks(tasks, limit)]
    /\ UNCHANGED <<tasks, workflows, workflow_phases, task_logs, webhook_deliveries,
                   queue, result_queue, workers, webhook_worker, endpoint, requests, loops>>

NextPendingQuery == \E limit \in 0..MaxLimit : CallGetPendingTasks(limit)

SpecPendingQuery == InitPendingQuery /\ [][NextPendingQuery]_vars

\* the task ids a task's dependencies are drawn from: ids other than its own
DependencyIds == 2..(MaxDependencies + 1)

\* task 1, Pending, naming any set of these ids as its dependencies; each of the
\* ids has a row with any status, or no row
InitDependencyQuery ==
    \E dependencies \in SUBSET DependencyIds, stored \in SUBSET DependencyIds :
        \E status \in [stored -> TaskStatus] :
            StoreHolds((1 :> AsyncTask(1, Normal, dependencies, NULL, None, NULL, 1)) @@
                       [id \in stored |->
                           [AsyncTask(id, Normal, {}, NULL, None, NULL, id)
                               EXCEPT !.status = status[id]]],
                       << >>, << >>)

\* Database::are_dependencies_completed(task) called on the Store; the answer is
\* Ok(true) or Ok(false), an Err only comes from a failing connection
CallAreDependenciesCompleted(task_id) ==
    /\ call = no_call
    /\ has_task(tasks, task_id)
    /\ call' = [op |-> "are_dependencies_completed", task_id |-> task_id,
                answer |-> are_dependencies_completed(tasks, get_task(tasks, task_id))]
    /\ UNCHANGED <<tasks, workflows, workflow_phases, task_logs, webhook_deliveries,
                   queue, result_queue, workers, webhook_worker, endpoint, requests, loops>>

NextDependencyQuery == \E t \in DOMAIN tasks : CallAreDependenciesCompleted(t)

SpecDependencyQuery == InitDependencyQuery /\ [][NextDependencyQuery]_vars

\* two workflows that may each hold phases of the same names
QueriedWorkflows == {1, 2}

\* the phase whose dependencies are asked about: a phase of the first workflow
QueriedPhase == <<1, "p3">>

\* the queried phase, depending on any set of the phase names in PhaseIds; in
\* each of the two workflows each of these names has a row with any status, or
\* no row
InitPhaseQuery ==
    LET others == QueriedWorkflows \X PhaseIds
    IN  \E depends_on \in SUBSET PhaseIds, stored \in SUBSET others :
            \E status \in [stored -> TaskStatus] :
                StoreHolds(<< >>,
                           [w \in QueriedWorkflows |-> Workflow(w)],
                           (QueriedPhase :>
                               WorkflowPhase(QueriedPhase[1], QueriedPhase[2], depends_on)) @@
                           [k \in stored |->
                               [WorkflowPhase(k[1], k[2], {}) EXCEPT !.status = status[k]]])

\* Database::are_phase_dependencies_completed(workflow_id, phase) called on the
\* Store with a phase read earlier (get_workflow_phases); the client keeps the
\* previous answer, as test_workflow_phases does around update_phase_status
CallArePhaseDependenciesCompleted(workflow_id, key) ==
    /\ has_phase(workflow_phases, key[1], key[2])
    /\ call' = [op |-> "are_phase_dependencies_completed",
                workflow_id |-> workflow_id,
                phase |-> find_phase(workflow_phases, key[1], key[2]),
                answer |-> are_phase_dependencies_completed(
                               workflow_phases, workflow_id,
                               find_phase(workflow_phases, key[1], key[2])),
                before |-> IF call = no_call \/ call.workflow_id # workflow_id
                           THEN << >> ELSE <<call.answer>>]
    /\ call' # call
    /\ UNCHANGED <<tasks, workflows, workflow_phases, task_logs, webhook_deliveries,
                   queue, result_queue, workers, webhook_worker, endpoint, requests, loops>>

NextPhaseQuery ==
    \/ \E w \in QueriedWorkflows : CallArePhaseDependenciesCompleted(w, QueriedPhase)
    \/ \E w \in QueriedWorkflows, p \in PhaseIds : UpdatePhaseStatus(w, p, Completed)

SpecPhaseQuery == InitPhaseQuery /\ [][NextPhaseQuery]_vars

\* two workflows, no phase yet
InitAddPhase ==
    StoreHolds(<< >>, [w \in QueriedWorkflows |-> Workflow(w)], << >>)

\* add_phase requests for any phase name and any depends_on in either workflow,
\* and phases being set Completed in between
NextAddPhase ==
    \/ \E w \in QueriedWorkflows, p \in PhaseIds, d \in SUBSET PhaseIds :
          AddPhaseRequest(w, p, d)
    \/ \E w \in QueriedWorkflows, p \in PhaseIds : UpdatePhaseStatus(w, p, Completed)

SpecAddPhase == InitAddPhase /\ [][NextAddPhase]_vars

\* up to MaxStoreTasks task rows, each standalone or a member of one of two
\* workflow ids and with any status; each of the two workflows has a row or not
InitWorkflowStatus ==
    \E n \in 0..MaxStoreTasks, stored \in SUBSET QueriedWorkflows :
        \E status \in [1..n -> TaskStatus],
           workflow_id \in [1..n -> {None} \cup QueriedWorkflows] :
            StoreHolds([id \in 1..n |->
                           [AsyncTask(id, Normal, {}, NULL, workflow_id[id],
                                      IF workflow_id[id] = None THEN NULL ELSE "p1", id)
                               EXCEPT !.status = status[id]]],
                       [w \in stored |-> Workflow(w)],
                       << >>)

\* api.rs get_workflow_status -> WorkflowExecutor::get_workflow_status
CallGetWorkflowStatus(workflow_id) ==
    /\ call = no_call
    /\ call' = [op |-> "get_workflow_status", workflow_id |-> workflow_id,
                answer |-> get_workflow_status(tasks, workflows, workflow_phases, workflow_id)]
    /\ UNCHANGED <<tasks, workflows, workflow_phases, task_logs, webhook_deliveries,
                   queue, result_queue, workers, webhook_worker, endpoint, requests, loops>>

NextWorkflowStatus == \E w \in QueriedWorkflows : CallGetWorkflowStatus(w)

SpecWorkflowStatus == InitWorkflowStatus /\ [][NextWorkflowStatus]_vars

\* The single-task happy path: standalone tasks without dependencies created
\* through task.create, the simulated runner (which always succeeds), the worker
\* pool, the scheduler and the result processor.
NextHappyPath ==
    \/ CreateTask(Normal, {}, NULL)
    \/ \E w \in WorkerIds : WorkerExecute(w)
    \/ \E w \in WorkerIds : WorkerFinish(w, Simulated)
    \/ SchedulerTick
    \/ ProcessResult

\* the workers and the result processor are tokio tasks that keep running; the
\* scheduler only acts every 5 seconds and nothing here depends on it
FairnessHappyPath ==
    /\ \A w \in WorkerIds : WF_vars(WorkerExecute(w))
    /\ \A w \in WorkerIds : WF_vars(WorkerFinish(w, Simulated))
    /\ WF_vars(ProcessResult)

SpecHappyPath == Init /\ [][NextHappyPath]_vars /\ FairnessHappyPath

\* The workflow executor alone: workflows are created, given phases (with or
\* without a dependency on "p1") and phase tasks (with or without a task
\* dependency, whether or not the phase has a row), standalone tasks are
\* created next to them, and workflows are started. No worker runs.
NextStartWorkflow ==
    \/ CreateWorkflow
    \/ \E w \in DOMAIN workflows, p \in PhaseIds, d \in {{}, {"p1"}} : AddPhase(w, p, d)
    \/ \E w \in DOMAIN workflows, p \in PhaseIds, d \in DependencyInputs :
          AddPhaseTask(w, p, Normal, d, NULL)
    \/ \E d \in DependencyInputs : CreateTask(Normal, d, NULL)
    \/ \E w \in DOMAIN workflows : StartWorkflowRequest(w)

SpecStartWorkflow == Init /\ [][NextStartWorkflow]_vars

\* up to MaxStoreTasks task rows, each standalone or a member of one of two
\* workflows and with any status; the first workflow has any status, the
\* second is Running
InitRollup ==
    \E n \in 0..MaxStoreTasks, workflow_status \in TaskStatus :
        \E status \in [1..n -> TaskStatus],
           workflow_id \in [1..n -> {None} \cup QueriedWorkflows] :
            StoreHolds([id \in 1..n |->
                           [AsyncTask(id, Normal, {}, NULL, workflow_id[id],
                                      IF workflow_id[id] = None THEN NULL ELSE "p1", id)
                               EXCEPT !.status = status[id]]],
                       [w \in QueriedWorkflows |->
                           [Workflow(w) EXCEPT
                               !.status = IF w = 1 THEN workflow_status ELSE Running]],
                       << >>)

\* process_task_result, from `if let Some(workflow_id) = task.workflow_id`:
\* the rollup of the workflow of the member task whose result was written
CallRollup(task_id) ==
    /\ call = no_call
    /\ has_task(tasks, task_id)
    /\ tasks[task_id].workflow_id # None
    /\ workflows' = rollup_workflow_status(tasks, workflows, tasks[task_id].workflow_id)
    /\ call' = [op |-> "update_workflow_status",
                workflow_id |-> tasks[task_id].workflow_id, before |-> workflows]
    /\ UNCHANGED <<tasks, workflow_phases, task_logs, webhook_deliveries, queue,
                   result_queue, workers, webhook_worker, endpoint, requests, loops>>

NextRollup == \E t \in 1..MaxStoreTasks : CallRollup(t)

SpecRollup == InitRollup /\ [][NextRollup]_vars

\* Every component that writes to the Store, on up to MaxLifecycleTasks tasks:
\* the request handlers, the workflow executor, the first worker of the pool
\* (Execute, Cancel, Retry), the scheduler, the result processor and the
\* webhook worker.
NextComponents ==
    \/ /\ Cardinality(DOMAIN tasks) < MaxLifecycleTasks
       /\ \E u \in {NULL, "url"} : CreateTask(Normal, {}, u)
    \/ CreateWorkflow
    \/ \E w \in DOMAIN workflows, p \in PhaseIds :
          \E d \in DependsOnInputs(p) : AddPhase(w, p, d)
    \/ /\ Cardinality(DOMAIN tasks) < MaxLifecycleTasks
       /\ \E w \in DOMAIN workflows, p \in PhaseIds : AddPhaseTask(w, p, Normal, {}, "url")
    \/ \E w \in DOMAIN workflows : StartWorkflow(w)
    \/ \E t \in DOMAIN tasks : CancelRequest(t)
    \/ \E t \in DOMAIN tasks : RetryRequest(t)
    \/ WorkerExecute(FirstWorker)
    \/ \E o \in RunnerOutcomes : WorkerFinish(FirstWorker, o)
    \/ WorkerCancel(FirstWorker)
    \/ WorkerRetry(FirstWorker)
    \/ SchedulerTick
    \/ ProcessResult
    \/ WebhookTick
    \/ WebhookSkip
    \/ \E r \in EndpointResponses : WebhookDeliver(r)
    \/ \E r \in EndpointResponses : WebhookRetry(r)

SpecComponents == Init /\ [][NextComponents]_vars

\* The engine on standalone tasks with a Store whose calls may fail: the first
\* worker of the pool, the scheduler and the result processor.
NextStoreFailure ==
    \/ CreateTask(Normal, {}, NULL)
    \/ WorkerExecute(FirstWorker)
    \/ WorkerExecuteStoreFailure(FirstWorker)
    \/ \E o \in RunnerOutcomes : WorkerFinish(FirstWorker, o)
    \/ SchedulerTick
    \/ SchedulerTickStoreFailure
    \/ ProcessResult
    \/ ProcessResultStoreFailure

\* the worker, the scheduler and the result processor keep running: each
\* handles what it receives, successfully or not
FairnessStoreFailure ==
    /\ WF_vars(WorkerExecute(FirstWorker) \/ WorkerExecuteStoreFailure(FirstWorker))
    /\ WF_vars(\E o \in RunnerOutcomes : WorkerFinish(FirstWorker, o))
    /\ WF_vars(SchedulerTick \/ SchedulerTickStoreFailure)
    /\ WF_vars(ProcessResult \/ ProcessResultStoreFailure)

SpecStoreFailure == Init /\ [][NextStoreFailure]_vars /\ FairnessStoreFailure

\* The webhook pipeline alone, on a Store of up to MaxTasks tasks that have come
\* to rest in a terminal state, with or without a webhook_url, and an endpoint
\* that answers every POST with a failure (for MaxDownAnswers POSTs).
InitEndpointDown ==
    \E n \in 1..MaxTasks :
        \E status \in [1..n -> {Completed, Failed, Cancelled}],
           webhook_url \in [1..n -> {NULL, "url"}] :
            /\ tasks = [id \in 1..n |->
                           [AsyncTask(id, Normal, {}, webhook_url[id], None, NULL, id)
                               EXCEPT !.status = status[id], !.started_at = Now,
                                      !.completed_at = Now]]
            /\ workflows = << >>
            /\ workflow_phases = << >>
            /\ task_logs = << >>
            /\ webhook_deliveries = << >>
            /\ queue = << >>
            /\ result_queue = << >>
            /\ workers = [w \in WorkerIds |-> idle]
            /\ webhook_worker = sleeping
            /\ endpoint = [failures_left |-> MaxDownAnswers, calls |-> << >>]
            /\ requests = [count |-> 0, retry |-> {}, starts |-> 0]
            /\ call = no_call
            /\ loops = spawned

\* no row changes between the worker's query and its deliveries here, so
\* deliver_webhook never finds a task to skip
NextEndpointDown ==
    \/ WebhookTick
    \/ WebhookDeliver(500)
    \/ WebhookRetry(500)

SpecEndpointDown == InitEndpointDown /\ [][NextEndpointDown]_vars

\* numbers of Pending tasks that wait for a dependency that has failed
BlockedCounts == {0, 1, SchedulerLimit - 1, SchedulerLimit}

\* A Store with a Completed task (id 1), a Failed task (id 2), n High-priority
\* Pending tasks that depend on the Failed one, and a last-created Pending
\* task of any priority that depends on the Completed one.
InitStarvation ==
    \E n \in BlockedCounts, priority \in TaskPriority :
        StoreHolds([id \in 1..(n + 3) |->
                       IF id = 1
                       THEN [AsyncTask(id, Normal, {}, NULL, None, NULL, id)
                                EXCEPT !.status = Completed]
                       ELSE IF id = 2
                       THEN [AsyncTask(id, Normal, {}, NULL, None, NULL, id)
                                EXCEPT !.status = Failed]
                       ELSE IF id = n + 3
                       THEN AsyncTask(id, priority, {1}, NULL, None, NULL, id)
                       ELSE AsyncTask(id, High, {2}, NULL, None, NULL, id)],
                   << >>, << >>)

\* The scheduler, the worker pool and the result processor on that Store
NextStarvation ==
    \/ SchedulerTick
    \/ \E w \in WorkerIds : WorkerExecute(w)
    \/ \E w \in WorkerIds, o \in RunnerOutcomes : WorkerFinish(w, o)
    \/ ProcessResult

\* the scheduler loop ticks every 5 seconds for ever; the workers and the
\* result processor are tokio tasks that keep running
FairnessStarvation ==
    /\ WF_vars(SchedulerTick)
    /\ \A w \in WorkerIds : WF_vars(WorkerExecute(w))
    /\ \A w \in WorkerIds, o \in RunnerOutcomes : WF_vars(WorkerFinish(w, o))
    /\ WF_vars(ProcessResult)

SpecStarvation == InitStarvation /\ [][NextStarvation]_vars /\ FairnessStarvation

(***************************************************************************)
(* Properties                                                              *)
(***************************************************************************)
\* the step moves task t to Running
MovedToRunning(t) == tasks[t].status # Running /\ tasks'[t].status = Running

\* C1 (dependency gating): whenever a step moves a task to Running, every task
\* id in its dependencies exists in the Store and has status Completed at that
\* moment, in every interleaving of create_task, the scheduler and the workers.
C1_DependencyGating ==
    [][\A t \in DOMAIN tasks :
          MovedToRunning(t) => are_dependencies_completed(tasks, get_task(tasks, t))]_vars

\* C2 (no double execution): a task that was never sent a Retry command is
\* moved to Running, and handed to the runner, at most once: it has at most
\* one "Task started" log row.
C2_NoDoubleExecution ==
    \A t \in DOMAIN tasks :
        t \notin requests.retry => log_count(task_logs, t, "Task started") <= 1

\* C3 (phase gating): whenever a step moves a task that belongs to a workflow
\* phase to Running, every phase listed in its phase's depends_on has status
\* Completed at that moment.
C3_PhaseGating ==
    [][\A t \in DOMAIN tasks :
          (/\ MovedToRunning(t)
           /\ tasks[t].workflow_id # None
           /\ tasks[t].phase_id # NULL
           /\ has_phase(workflow_phases, tasks[t].workflow_id, tasks[t].phase_id))
          => are_phase_dependencies_completed(workflow_phases, tasks[t].workflow_id,
                 find_phase(workflow_phases, tasks[t].workflow_id, tasks[t].phase_id))]_vars

\* C4 (workflow rollup): in every state where all member tasks of a started
\* workflow (it has at least one) are Completed, Failed or Cancelled, the
\* workflow's status is Completed or Failed.
C4_WorkflowRollup ==
    \A w \in DOMAIN workflows :
        LET members == get_workflow_tasks(tasks, w)
        IN  (/\ workflows[w].started_at # NULL
             /\ members # << >>
             /\ \A i \in 1..Len(members) : is_complete(members[i]))
            => workflows[w].status \in {Completed, Failed}

\* C5 (result and error agree with status): in every state, a task with a
\* result has status Completed and a task with an error has status Failed.
C5_ResultErrorMatchStatus ==
    \A t \in DOMAIN tasks :
        /\ tasks[t].result # NULL => tasks[t].status = Completed
        /\ tasks[t].error # NULL => tasks[t].status = Failed

\* C6 (timestamps follow status): in every state, a Running task has
\* started_at set and a Completed, Failed or Cancelled task has completed_at
\* set (every task is created Pending with no timestamps).
C6_TimestampsFollowStatus ==
    \A t \in DOMAIN tasks :
        /\ tasks[t].status = Running => tasks[t].started_at # NULL
        /\ is_complete(tasks[t]) => tasks[t].completed_at # NULL

\* a task that failed and was retried is Running again: it has been through
\* Running, Failed and Pending, and carries both timestamps
C6_Witness ==
    \E t \in DOMAIN tasks :
        /\ log_count(task_logs, t, "Task retry scheduled") > 0
        /\ tasks[t].status = Running
        /\ tasks[t].started_at = Now
        /\ tasks[t].completed_at = Now

\* C7 (webhook idempotency): once a delivery row with a 2xx status_code exists
\* for a task, no step posts to the endpoint for that task again and no step
\* writes another delivery row for it.
C7_WebhookIdempotency ==
    [][\A t \in DOMAIN tasks :
          has_2xx_delivery(webhook_deliveries, t) =>
             /\ calls_for(endpoint', t) = calls_for(endpoint, t)
             /\ get_delivery_history(webhook_deliveries', t)
                   = get_delivery_history(webhook_deliveries, t)]_vars

\* a task has a 2xx delivery row and is still Completed or Failed, and the
\* webhook worker has since woken up again and is about to deliver another task
C7_Witness ==
    \E t, u \in DOMAIN tasks :
        /\ t # u
        /\ has_2xx_delivery(webhook_deliveries, t)
        /\ tasks[t].webhook_url # NULL
        /\ tasks[t].status \in {Completed, Failed}
        /\ webhook_worker.state = "deliver"
        /\ Head(webhook_worker.todo) = u

\* C8 (webhook retry log): if the endpoint answered the posts for a task with k
\* failures (k <= max_retries) and then a 2xx, the task's delivery history has
\* exactly k+1 rows, only the most recent one has a 2xx status_code and
\* delivered_at set, and find_pending_webhooks does not return the task.
C8_WebhookRetryLog ==
    \A t \in DOMAIN tasks :
        LET calls == calls_for(endpoint, t)
            k == Len(calls) - 1
            history == get_delivery_history(webhook_deliveries, t)
            pending == find_pending_webhooks(tasks, webhook_deliveries)
        IN  (/\ k >= 0
             /\ k <= WebhookMaxRetries
             /\ is_success_status(calls[k + 1])
             /\ \A i \in 1..k : ~is_success_status(calls[i]))
            => /\ Len(history) = k + 1
               /\ history[1].status_code # None
               /\ is_success_status(history[1].status_code)
               /\ history[1].delivered_at # NULL
               /\ \A i \in 2..(k + 1) :
                     history[i].status_code = None /\ history[i].delivered_at = NULL
               /\ \A i \in 1..Len(pending) : pending[i] # t

\* the endpoint failed twice for a task and then answered 200, all logged
C8_Witness ==
    \E t \in DOMAIN tasks :
        /\ is_complete(tasks[t])
        /\ calls_for(endpoint, t) = <<500, 500, 200>>
        /\ Len(get_delivery_history(webhook_deliveries, t)) = 3

\* C9 (at-least-once delivery): for every task that comes to rest in a terminal
\* state with a webhook_url, a 2xx delivery row is eventually recorded, when
\* the webhook worker is scheduled fairly and the endpoint answers 2xx after
\* finitely many failures.
C9_AtLeastOnceDelivery ==
    \A t \in TaskIds :
        <>[](/\ has_task(tasks, t)
             /\ tasks[t].webhook_url # NULL
             /\ is_complete(tasks[t]))
        => <>(has_2xx_delivery(webhook_deliveries, t))

\* C10 (phased workflow progress): in the chain workflow p1 <- p2 <- p3, with
\* scheduler, workers, result processor and start_workflow scheduled fairly,
\* eventually all three tasks are Completed and the workflow is Completed.
C10_ChainProgress ==
    <>(/\ \A t \in DOMAIN tasks : tasks[t].status = Completed
       /\ \A w \in DOMAIN workflows : workflows[w].status = Completed)

\* C11: a standalone task without dependencies created through task.create
\* eventually is Completed with a nonempty result, when the runner succeeds and
\* the workers and the result processor are scheduled fairly.
C11_HappyPathCompletes ==
    \A t \in TaskIds :
        has_task(tasks, t) ~>
            (/\ has_task(tasks, t)
             /\ tasks[t].status = Completed
             /\ tasks[t].result # NULL)

\* a created task was executed, its result processed, and it is Completed with a result
C11_Witness ==
    \E t \in DOMAIN tasks :
        /\ tasks[t].dependencies = {}
        /\ tasks[t].status = Completed
        /\ tasks[t].result # NULL
        /\ log_count(task_logs, t, "Task completed successfully") > 0

\* C12: for every task row, can_retry answers true exactly when the status is
\* Failed and retry_count is less than max_retries.
C12_CanRetryExactly ==
    call.op = "can_retry" =>
        (call.answer <=> (/\ tasks[call.task_id].status = Failed
                          /\ tasks[call.task_id].retry_count < tasks[call.task_id].max_retries))

\* can_retry answered false for a Failed task whose retry_count has reached max_retries
C12_Witness ==
    /\ call.op = "can_retry"
    /\ call.answer = FALSE
    /\ tasks[call.task_id].status = Failed
    /\ tasks[call.task_id].max_retries > 0
    /\ tasks[call.task_id].retry_count = tasks[call.task_id].max_retries

\* the step hands to the runner a task that a Retry command had reset to Pending
\* (only the Retry handler writes Pending over a row that has completed_at)
ReExecutedAfterRetry(t) ==
    /\ tasks[t].status = Pending
    /\ tasks[t].completed_at # NULL
    /\ tasks'[t].status = Running

\* C13 (bounded retry): over any sequence of failures and Retry commands, a task
\* is reset to Pending by a Retry command at most max_retries times; a further
\* Retry command on the Failed task changes nothing.
C13_BoundedRetry ==
    \A t \in DOMAIN tasks :
        log_count(task_logs, t, "Task retry scheduled") <= tasks[t].max_retries

\* C14: retry_count is incremented at the moment a retried task is re-executed:
\* the step that moves a task reset by Retry to Running adds one to its retry_count.
C14_RetryCountIncrements ==
    [][\A t \in DOMAIN tasks :
          ReExecutedAfterRetry(t) => tasks'[t].retry_count = tasks[t].retry_count + 1]_vars

\* the smaller of two numbers
Min(a, b) == IF a <= b THEN a ELSE b

\* C15: for every Store content, get_pending_tasks(n) returns only rows of the
\* Store with status Pending, each at most once, sorted by priority descending
\* and then created_at ascending, and as many as min(n, number of Pending rows).
C15_PendingTasksSortedAndLimited ==
    call.op = "get_pending_tasks" =>
        LET answer == call.answer
        IN  /\ \A i \in DOMAIN answer :
                  /\ has_task(tasks, answer[i].id)
                  /\ answer[i] = tasks[answer[i].id]
                  /\ answer[i].status = Pending
            /\ \A i, j \in DOMAIN answer : i < j =>
                  /\ answer[i].id # answer[j].id
                  /\ \/ answer[i].priority > answer[j].priority
                     \/ /\ answer[i].priority = answer[j].priority
                        /\ answer[i].created_at <= answer[j].created_at
            /\ Len(answer) =
                  Min(call.limit, Cardinality({t \in DOMAIN tasks : tasks[t].status = Pending}))

\* a query cut by its LIMIT whose answer puts a higher priority before an
\* earlier created row
C15_Witness ==
    /\ call.op = "get_pending_tasks"
    /\ Len(call.answer) = 2
    /\ call.limit < Cardinality({t \in DOMAIN tasks : tasks[t].status = Pending})
    /\ call.answer[1].priority > call.answer[2].priority
    /\ call.answer[1].created_at > call.answer[2].created_at

\* C16: are_dependencies_completed(t) answers true exactly when t.dependencies
\* is empty or every id in it has a row in the Store with status Completed; an
\* id without a row makes the answer false, and the answer is always a boolean.
C16_DependenciesCompletedExactly ==
    call.op = "are_dependencies_completed" =>
        LET dependencies == tasks[call.task_id].dependencies
        IN  /\ call.answer \in BOOLEAN
            /\ call.answer <=>
                  \/ dependencies = {}
                  \/ \A d \in dependencies :
                        has_task(tasks, d) /\ tasks[d].status = Completed
            /\ (\E d \in dependencies : ~has_task(tasks, d)) => call.answer = FALSE

\* the answer false for a task with one dependency Completed and one without a row
C16_Witness ==
    /\ call.op = "are_dependencies_completed"
    /\ call.answer = FALSE
    /\ \E d \in tasks[call.task_id].dependencies : ~has_task(tasks, d)
    /\ \E d \in tasks[call.task_id].dependencies :
          has_task(tasks, d) /\ tasks[d].status = Completed
    /\ \A d \in tasks[call.task_id].dependencies :
          has_task(tasks, d) => tasks[d].status = Completed

\* the step is a call of are_phase_dependencies_completed
AnswersPhaseQuery == call' # call /\ call'.op = "are_phase_dependencies_completed"

\* phase row k of the Store depends on d, d has a row in workflow w that is not
\* Completed, every other phase k depends on is Completed in w, and the step
\* sets d Completed in w
CompletesLastDependency(w, k, d) ==
    /\ d \in workflow_phases[k].depends_on
    /\ has_phase(workflow_phases, w, d)
    /\ find_phase(workflow_phases, w, d).status # Completed
    /\ \A o \in workflow_phases[k].depends_on \ {d} :
          has_phase(workflow_phases, w, o) /\ find_phase(workflow_phases, w, o).status = Completed
    /\ workflow_phases' = update_phase_status(workflow_phases, w, d, Completed)

\* C17: are_phase_dependencies_completed(wf, phase) answers true exactly when
\* phase.depends_on is empty or every phase id in it has a row in workflow wf
\* with status Completed; and the answer for a phase turns from false to true
\* in the step that sets its last incomplete dependency phase Completed.
C17_PhaseDependenciesCompletedExactly ==
    [][/\ AnswersPhaseQuery =>
             (call'.answer <=>
                 \/ call'.phase.depends_on = {}
                 \/ \A d \in call'.phase.depends_on :
                       /\ <<call'.workflow_id, d>> \in DOMAIN workflow_phases
                       /\ workflow_phases[<<call'.workflow_id, d>>].status = Completed)
       /\ \A w \in DOMAIN workflows, k \in DOMAIN workflow_phases, d \in PhaseIds :
             CompletesLastDependency(w, k, d) =>
                 /\ ~are_phase_dependencies_completed(workflow_phases, w, workflow_phases[k])
                 /\ are_phase_dependencies_completed(workflow_phases', w, workflow_phases'[k])]_vars

\* the answer true, after the answer false, for a phase that depends on two
\* phases of which one was set Completed in between
C17_Witness ==
    /\ call.op = "are_phase_dependencies_completed"
    /\ call.before = <<FALSE>>
    /\ call.answer = TRUE
    /\ Cardinality(call.phase.depends_on) = 2
    /\ \E d \in call.phase.depends_on :
          workflow_phases[<<call.workflow_id, d>>].completed_at = Now

\* the step is a call of submit_task, cancel_task or retry_task
CallsSend ==
    /\ call' # call
    /\ call'.op \in {"submit_task", "cancel_task", "retry_task"}
    /\ has_returned(call)

\* C18 (queue backpressure): a call of submit_task, cancel_task or retry_task
\* made while the command channel is full fails the caller with an error; the
\* caller is not left waiting for room.
C18_FullChannelFailsCaller ==
    [][(CallsSend /\ Len(queue) = MaxQueue) => call'.state = "error"]_vars

\* the number of Shutdown commands in the command channel
ShutdownsQueued == Cardinality({i \in DOMAIN queue : queue[i] = Shutdown})

\* the workers whose loop has ended
ExitedWorkers == {w \in WorkerIds : workers[w] = exited}

\* every Shutdown command sent so far is in the channel or has ended one worker,
\* and shutdown() returns after exactly as many sends as there are workers
ShutdownsAccounted ==
    IF call.op = "shutdown"
    THEN /\ call.sent = ShutdownsQueued + Cardinality(ExitedWorkers)
         /\ call.sent <= NumWorkers
         /\ call.state = "ok" <=> call.sent = NumWorkers
    ELSE ShutdownsQueued = 0 /\ ExitedWorkers = {}

\* C19 (worker shutdown): shutdown() enqueues exactly N Shutdown commands for N
\* workers; a worker that dequeues a Shutdown exits and stays exited, so no
\* worker consumes two of them and nothing is consumed once all have exited;
\* and after shutdown() is called every worker eventually exits.
C19_WorkerShutdown ==
    /\ []ShutdownsAccounted
    /\ [][/\ \A w \in WorkerIds : workers[w] = exited => workers'[w] = exited
          /\ ExitedWorkers = WorkerIds => Len(queue') >= Len(queue)]_vars
    /\ (call.op = "shutdown") ~> (ExitedWorkers = WorkerIds)

\* shutdown() has returned, every worker has exited, and one of them had run a task before
C19_Witness ==
    /\ call.op = "shutdown"
    /\ call.state = "ok"
    /\ call.sent = NumWorkers
    /\ ExitedWorkers = WorkerIds
    /\ ShutdownsQueued = 0
    /\ \E t \in DOMAIN tasks : tasks[t].status = Completed

\* the scheduler loop, the result processor loop and the webhook worker loop have returned
LoopsReturned ==
    /\ loops.scheduler = "returned"
    /\ loops.result_processor = "returned"
    /\ webhook_worker.state = "returned"

\* C20 (background-loop shutdown): after shutdown() is called, the scheduler
\* loop, the result processor loop and the webhook worker loop eventually return.
C20_LoopsReturnAfterShutdown ==
    (call.op = "shutdown") ~> LoopsReturned

\* shutdown() has returned and every worker has exited, and the channel holds
\* two Execute commands for one task: the second was sent by a scheduler tick
C20_Witness ==
    /\ call.op = "shutdown"
    /\ call.state = "ok"
    /\ ExitedWorkers = WorkerIds
    /\ \E i, j \in DOMAIN queue :
          i < j /\ queue[i].type = "Execute" /\ queue[j] = queue[i]

\* the member tasks of workflow w, as a set of rows
Members(w) == {tasks[t] : t \in {i \in DOMAIN tasks : tasks[i].workflow_id = w}}

\* C21 (workflow status invariant): in every state, a workflow with member
\* tasks has status Completed if and only if every member task is Completed,
\* Failed or Cancelled and none is Failed, and a workflow with a Failed member
\* task has status Failed.
C21_WorkflowStatusInvariant ==
    \A w \in DOMAIN workflows :
        Members(w) # {} =>
            /\ workflows[w].status = Completed <=>
                  \A m \in Members(w) : is_complete(m) /\ m.status # Failed
            /\ (\E m \in Members(w) : m.status = Failed) => workflows[w].status = Failed

\* C22: in every state, a task has completed_at set if and only if its status
\* is Completed, Failed or Cancelled; a Pending or Running task has none, also
\* after a Retry.
C22_CompletedAtIffTerminal ==
    \A t \in DOMAIN tasks : tasks[t].completed_at # NULL <=> is_complete(tasks[t])

\* the step is a Cancel or Retry request that names a task id without a row
RequestsUnknownTask ==
    /\ call' # call
    /\ call'.op \in {"cancel_task", "retry_task"}
    /\ ~has_task(tasks, call'.command.task_id)

\* the step is a start_workflow request that names a workflow id without a row
StartsUnknownWorkflow ==
    /\ call' # call
    /\ call'.op = "start_workflow"
    /\ call'.workflow_id \notin DOMAIN workflows

\* C23 (validation of unknown ids): start_workflow on a workflow id without a
\* row and Cancel / Retry requests on a task id without a row give the caller
\* an error, and no log row is ever written for a task id that has no row.
C23_UnknownIdsFail ==
    [][/\ RequestsUnknownTask => call'.state = "error"
       /\ StartsUnknownWorkflow => call'.state = "error"
       /\ \A k \in DOMAIN task_logs' : has_task(tasks', k[1])]_vars

\* a "Task cancelled" log row for a task id that has no row in the Store
C23_Witness ==
    \E k \in DOMAIN task_logs :
        /\ ~has_task(tasks, k[1])
        /\ k[2] = "Task cancelled"
        /\ call.op = "cancel_task"
        /\ call.state = "ok"

\* the step is an add_phase request
RequestsAddPhase == call' # call /\ call'.op = "add_phase"

\* C24: add_phase with a phase_id that already has a row in the same workflow
\* fails with an error and leaves every phase row as it was; with a phase_id
\* that has no row in that workflow, also when another workflow has a phase of
\* that name, it succeeds and adds the row.
C24_DuplicatePhaseFails ==
    [][RequestsAddPhase =>
          LET k == <<call'.phase.workflow_id, call'.phase.phase_id>>
          IN  IF k \in DOMAIN workflow_phases
              THEN call'.state = "error" /\ workflow_phases' = workflow_phases
              ELSE /\ call'.state = "ok"
                   /\ DOMAIN workflow_phases' = DOMAIN workflow_phases \cup {k}
                   /\ workflow_phases'[k] = call'.phase
                   /\ \A o \in DOMAIN workflow_phases :
                         workflow_phases'[o] = workflow_phases[o]]_vars

\* a phase name added to the second workflow while the first holds a Completed
\* phase of that name, and then refused when added to the second workflow again
C24_Witness ==
    /\ call.op = "add_phase"
    /\ call.state = "error"
    /\ call.phase.workflow_id = 2
    /\ <<1, call.phase.phase_id>> \in DOMAIN workflow_phases
    /\ workflow_phases[<<1, call.phase.phase_id>>].status = Completed
    /\ workflow_phases[<<2, call.phase.phase_id>>].depends_on # call.phase.depends_on

\* the number of member tasks of workflow w whose status is one of S
MembersWithStatus(w, S) ==
    Cardinality({t \in DOMAIN tasks : tasks[t].workflow_id = w /\ tasks[t].status \in S})

\* C25: get_workflow_status(wf) fails when wf has no row; otherwise total_tasks
\* is the number of member tasks of wf, and completed_tasks, failed_tasks and
\* running_tasks are the numbers of member tasks that are Completed, Failed
\* and Running, whatever statuses the tasks have come to.
C25_WorkflowStatusCounts ==
    call.op = "get_workflow_status" =>
        IF call.workflow_id \notin DOMAIN workflows
        THEN call.answer.state = "error"
        ELSE /\ call.answer.state = "ok"
             /\ call.answer.total_tasks = MembersWithStatus(call.workflow_id, TaskStatus)
             /\ call.answer.completed_tasks = MembersWithStatus(call.workflow_id, {Completed})
             /\ call.answer.failed_tasks = MembersWithStatus(call.workflow_id, {Failed})
             /\ call.answer.running_tasks = MembersWithStatus(call.workflow_id, {Running})

\* the summary of a workflow with a Completed, a Cancelled and a Running member,
\* on a Store where the other workflow id has no row
C25_Witness ==
    /\ call.op = "get_workflow_status"
    /\ call.answer.state = "ok"
    /\ call.answer.total_tasks = 3
    /\ call.answer.completed_tasks = 1
    /\ call.answer.running_tasks = 1
    /\ \E t \in DOMAIN tasks : tasks[t].status = Cancelled
    /\ DOMAIN workflows # QueriedWorkflows

\* a worker takes Execute(id) off the channel while id has no row or its row
\* is not Pending
ExecutesNonPending ==
    /\ queue # << >>
    /\ Head(queue).type = "Execute"
    /\ queue' = Tail(queue)
    /\ \/ ~has_task(tasks, Head(queue).task_id)
       \/ tasks[Head(queue).task_id].status # Pending

\* C26: a worker that handles Execute(id) for a task that is missing or not
\* Pending skips it: the task rows and the logs stay as they are, the runner
\* is not invoked and no TaskResult is produced.
C26_ExecuteGuard ==
    [][ExecutesNonPending => UNCHANGED <<tasks, task_logs, workers, result_queue>>]_vars

\* a second "Task started" log row of a task that was Running when the worker
\* took its Execute command
C26_Witness ==
    \E t \in DOMAIN tasks :
        /\ log_count(task_logs, t, "Task started") = 2
        /\ log_count(task_logs, t, "Task retry scheduled") = 0

\* the ids that the last-created task has in the Stores of InitStarvation
LastCreated == {n + 3 : n \in BlockedCounts}

\* C27: every Pending task whose dependencies are all Completed (and whose
\* phase's dependencies are all Completed) is eventually sent Execute by the
\* scheduler and becomes Running, when scheduler and workers keep running,
\* however many other Pending tasks the Store holds, higher-priority tasks
\* that wait for unmet dependencies included.
C27_EligibleTaskRuns ==
    \A t \in LastCreated :
        (/\ has_task(tasks, t)
         /\ tasks[t].status = Pending
         /\ schedule_sends(tasks, workflow_phases, tasks[t]))
            ~> (has_task(tasks, t) /\ tasks[t].status = Running)

\* a Pending task with Completed dependencies that the scheduler's query does
\* not return: SchedulerLimit Pending tasks are ordered before it
C27_Witness ==
    \E t \in DOMAIN tasks :
        /\ tasks[t].status = Pending
        /\ schedule_sends(tasks, workflow_phases, tasks[t])
        /\ Cardinality({b \in DOMAIN tasks : /\ tasks[b].status = Pending
                                             /\ PendingBefore(tasks[b], tasks[t])})
              >= SchedulerLimit

\* the statuses that the member tasks of workflow w have
MemberStatuses(w) == {tasks[t].status : t \in {i \in DOMAIN tasks : tasks[i].workflow_id = w}}

\* C28: a rollup sets the workflow's status to Failed if any member task is
\* Failed; otherwise to Completed if every member is Completed; otherwise to
\* Completed if every member is terminal (Cancelled mixed in, none Failed);
\* otherwise it leaves the status as it was. Other workflows are not touched.
C28_RollupRule ==
    call.op = "update_workflow_status" =>
        LET w == call.workflow_id
            M == MemberStatuses(w)
        IN  /\ workflows[w].status =
                  IF Failed \in M THEN Failed
                  ELSE IF M \subseteq {Completed} THEN Completed
                  ELSE IF M \subseteq {Completed, Failed, Cancelled} THEN Completed
                  ELSE call.before[w].status
            /\ \A v \in DOMAIN workflows \ {w} : workflows[v] = call.before[v]

\* a Running workflow rolled up to Completed over a Cancelled and a Completed member
C28_Witness ==
    /\ call.op = "update_workflow_status"
    /\ MemberStatuses(call.workflow_id) = {Completed, Cancelled}
    /\ call.before[call.workflow_id].status = Running
    /\ workflows[call.workflow_id].status = Completed

\* the member tasks of workflow w that have no dependencies and whose phase
\* has a row with empty depends_on
StartedMembers(w) ==
    {t \in DOMAIN tasks :
        /\ tasks[t].workflow_id = w
        /\ tasks[t].dependencies = {}
        /\ <<w, tasks[t].phase_id>> \in DOMAIN workflow_phases
        /\ workflow_phases[<<w, tasks[t].phase_id>>].depends_on = {}}

\* C29: start_workflow sets the workflow to Running and enqueues Execute for
\* exactly those member tasks that have empty dependencies and whose
\* containing phase has empty depends_on: one command for each of them and
\* no other command.
C29_StartWorkflowSubmits ==
    [][requests'.starts # requests.starts =>
          LET w == call'.workflow_id
              sent == SubSeq(queue', Len(queue) + 1, Len(queue'))
          IN  /\ workflows'[w].status = Running
              /\ SubSeq(queue', 1, Len(queue)) = queue
              /\ \A i \in 1..Len(sent) : sent[i].type = "Execute"
              /\ {sent[i].task_id : i \in 1..Len(sent)} = StartedMembers(w)
              /\ Len(sent) = Cardinality(StartedMembers(w))]_vars

\* a started workflow with a member whose Execute is in the channel and a
\* member without dependencies, in a phase that depends on another, whose
\* Execute is not
C29_Witness ==
    /\ call.op = "start_workflow"
    /\ workflows[call.workflow_id].status = Running
    /\ \E t \in StartedMembers(call.workflow_id) : \E i \in 1..Len(queue) : queue[i] = Execute(t)
    /\ \E u \in DOMAIN tasks :
          /\ tasks[u].workflow_id = call.workflow_id
          /\ tasks[u].dependencies = {}
          /\ <<call.workflow_id, tasks[u].phase_id>> \in DOMAIN workflow_phases
          /\ workflow_phases[<<call.workflow_id, tasks[u].phase_id>>].depends_on # {}
          /\ \A i \in 1..Len(queue) : queue[i] # Execute(u)

\* a step in which the scheduler's tick acts: the commands that
\* schedule_pending_tasks sends are appended to the channel and no client
\* request is made
SchedulerTicks ==
    /\ schedule_pending_tasks(tasks, workflow_phases) # << >>
    /\ queue' = queue \o schedule_pending_tasks(tasks, workflow_phases)
    /\ requests' = requests

\* C30: a scheduler tick only reads the Store and enqueues Execute commands:
\* it changes no task, workflow or phase row (status, timestamps,
\* retry_count) and appends no log.
C30_SchedulerFrame ==
    [][SchedulerTicks =>
          /\ UNCHANGED <<tasks, workflows, workflow_phases, task_logs>>
          /\ \A i \in (Len(queue) + 1)..Len(queue') : queue'[i].type = "Execute"]_vars

\* after a tick on a retried task: its Execute is the only command in the
\* channel, and the row is still Pending with the timestamps and the logs of
\* its earlier run
C30_Witness ==
    \E t \in DOMAIN tasks :
        /\ queue = <<Execute(t)>>
        /\ tasks[t].status = Pending
        /\ tasks[t].started_at = Now
        /\ tasks[t].completed_at = Now
        /\ log_count(task_logs, t, "Task retry scheduled") = 1
        /\ log_count(task_logs, t, "Task started") = 1

\* a worker takes Retry(id) off the channel
HandlesRetry ==
    /\ queue # << >>
    /\ Head(queue).type = "Retry"
    /\ queue' = Tail(queue)

\* C31: handling Retry(id) for a task that is Failed with retry_count below
\* max_retries sets its status to Pending and leaves completed_at, started_at,
\* result, error and retry_count (and every other row) as they were; handling
\* Retry(id) for a task that is not Failed, or has used up its retries, or has
\* no row, changes no row and appends no log.
C31_RetryCommandEffect ==
    [][HandlesRetry =>
          LET id == Head(queue).task_id
          IN  IF /\ id \in DOMAIN tasks
                 /\ tasks[id].status = Failed
                 /\ tasks[id].retry_count < tasks[id].max_retries
              THEN tasks' = [tasks EXCEPT ![id].status = Pending]
              ELSE UNCHANGED <<tasks, task_logs>>]_vars

\* a retried task: Pending, with the completed_at and error of its failure,
\* a used retry on record and one "Task retry scheduled" log row
C31_Witness ==
    \E t \in DOMAIN tasks :
        /\ tasks[t].status = Pending
        /\ tasks[t].completed_at = Now
        /\ tasks[t].error = "error"
        /\ tasks[t].retry_count = 1
        /\ log_count(task_logs, t, "Task retry scheduled") = 1

\* the number of delivery rows of task_id
delivery_rows(task_id) ==
    Len(SelectSeq(webhook_deliveries, LAMBDA row : row.task_id = task_id))

\* C32: for a terminal task whose endpoint never answers 2xx, the number of
\* delivery attempts, and of delivery rows, made by a running pipeline is at
\* most 1 + max_retries, however many ticks of the webhook worker elapse.
C32_WebhookAttemptsBounded ==
    \A t \in DOMAIN tasks :
        ~has_2xx_delivery(webhook_deliveries, t) =>
            /\ Len(calls_for(endpoint, t)) <= 1 + WebhookMaxRetries
            /\ delivery_rows(t) <= 1 + WebhookMaxRetries

\* the webhook worker sleeps after its second tick on a task whose endpoint
\* failed every time: two rounds of 1 + max_retries delivery rows
C32_Witness ==
    /\ webhook_worker = sleeping
    /\ \E t \in DOMAIN tasks :
          /\ delivery_rows(t) = 2 * (1 + WebhookMaxRetries)
          /\ ~has_2xx_delivery(webhook_deliveries, t)

\* the tasks in a terminal state that have a webhook_url and no delivery row
\* with a 2xx status_code
UndeliveredTerminal ==
    {t \in DOMAIN tasks :
        /\ tasks[t].status \in {Completed, Failed, Cancelled}
        /\ tasks[t].webhook_url # NULL
        /\ ~has_2xx_delivery(webhook_deliveries, t)}

\* C33: the pending-delivery query of the webhook worker's tick returns every
\* task that is in a terminal state (Completed, Failed or Cancelled), has a
\* webhook_url and has no delivery row with a 2xx status_code, and no other task.
C33_PendingWebhooksExactly ==
    [][(webhook_worker.state = "sleep" /\ webhook_worker'.state = "deliver") =>
          {webhook_worker'.todo[i] : i \in 1..Len(webhook_worker'.todo)}
              = UndeliveredTerminal]_vars

\* the worker sleeps again after a tick that delivered for one task and left
\* out a Cancelled task with a webhook_url, which has no delivery row
C33_Witness ==
    /\ webhook_worker = sleeping
    /\ webhook_deliveries # << >>
    /\ \E t \in DOMAIN tasks :
          /\ tasks[t].status = Cancelled
          /\ tasks[t].webhook_url # NULL
          /\ delivery_rows(t) = 0

\* a step writes status Completed or Failed to the row of task t
WritesOutcome(t) ==
    /\ t \in DOMAIN tasks'
    /\ tasks'[t].status \in {Completed, Failed}
    /\ t \in DOMAIN tasks => tasks'[t].status # tasks[t].status

\* the step is the result processor handling a TaskResult for task t
ProcessesResultOf(t) ==
    /\ result_queue # << >>
    /\ Head(result_queue).task_id = t
    /\ result_queue' = Tail(result_queue)

\* C34: only the result processor moves a task to Completed or Failed: no
\* handler of Execute, Cancel or Retry, no scheduler tick, no workflow
\* operation, no request and no webhook step writes one of these statuses.
C34_OnlyResultProcessorWritesOutcome ==
    [][\A t \in 1..(MaxLifecycleTasks + 1) : WritesOutcome(t) => ProcessesResultOf(t)]_vars

\* a member task of a started workflow that the result processor set Failed
\* and the webhook worker has posted for
C34_Witness ==
    \E t \in DOMAIN tasks :
        /\ tasks[t].status = Failed
        /\ tasks[t].workflow_id # None
        /\ log_count(task_logs, t, "Task failed") = 1
        /\ delivery_rows(t) > 0

\* C35: a Store failure (or a missing row) while a worker, the scheduler or
\* the result processor handles one task never terminates that loop: the
\* worker is ready for its next command, and the scheduler loop and the
\* result processor loop are still running.
C35_LoopsSurviveStoreFailure ==
    /\ workers[FirstWorker].state # "exited"
    /\ loops.scheduler # "panicked"
    /\ loops.result_processor # "panicked"

\* the scheduler loop has ended while a Pending task waits in the Store with
\* no Execute command in the channel
C35_Witness ==
    /\ loops.scheduler = "panicked"
    /\ queue = << >>
    /\ workers[FirstWorker] = idle
    /\ \E t \in DOMAIN tasks : tasks[t].status = Pending

\* C36: no member task of a workflow becomes Running before start_workflow
\* has been called for that workflow: while the workflow is still Pending,
\* none of its member tasks is Running, Completed or Failed.
C36_NoRunBeforeStart ==
    \A t \in DOMAIN tasks :
        (/\ tasks[t].workflow_id \in DOMAIN workflows
         /\ workflows[tasks[t].workflow_id].status = Pending)
            => tasks[t].status \notin {Running, Completed, Failed}

\* start_workflow was never called, the workflow is Pending, and a member
\* task has run to completion
C36_Witness ==
    /\ requests.starts = 0
    /\ \E t \in DOMAIN tasks :
          /\ tasks[t].workflow_id \in DOMAIN workflows
          /\ workflows[tasks[t].workflow_id].status = Pending
          /\ tasks[t].status = Completed
          /\ log_count(task_logs, t, "Task started") = 1

\* C37: Cancelled is final: once a task's status is Cancelled, no later step
\* (an Execute already in the channel, a scheduler tick, the result of a
\* runner that was in flight when the Cancel was handled) changes its status.
C37_CancelledIsFinal ==
    [][\A t \in DOMAIN tasks :
          tasks[t].status = Cancelled => tasks'[t].status = Cancelled]_vars

\* a task that was cancelled and is Completed: the result of its runner was
\* written after the Cancel was handled
C37_Witness ==
    \E t \in DOMAIN tasks :
        /\ log_count(task_logs, t, "Task cancelled") = 1
        /\ log_count(task_logs, t, "Task started") = 1
        /\ tasks[t].status = Completed

\* C38: Completed is final: once a task's status is Completed, no Cancel,
\* Retry, Execute (a duplicate in the channel, a second start_workflow) or
\* scheduler tick changes its status or runs it again.
C38_CompletedIsFinal ==
    [][\A t \in DOMAIN tasks :
          tasks[t].status = Completed =>
              /\ tasks'[t].status = Completed
              /\ log_count(task_logs', t, "Task started")
                    = log_count(task_logs, t, "Task started")]_vars

\* a task with a result that is Cancelled: the Cancel was handled after the
\* task had completed
C38_Witness ==
    \E t \in DOMAIN tasks :
        /\ tasks[t].result # NULL
        /\ log_count(task_logs, t, "Task completed successfully") = 1
        /\ tasks[t].status = Cancelled

\* C39: at any moment at most one worker has a runner in flight for a given
\* task id, even when the command channel holds more than one Execute for it.
C39_OneRunnerPerTask ==
    \A v, w \in WorkerIds :
        (/\ v # w
         /\ workers[v].state = "running"
         /\ workers[w].state = "running")
            => workers[v].task_id # workers[w].task_id

\* two workers run the same task, which has two "Task started" log rows
C39_Witness ==
    \E v, w \in WorkerIds :
        /\ v # w
        /\ workers[v].state = "running"
        /\ workers[w] = workers[v]
        /\ log_count(task_logs, workers[v].task_id, "Task started") = 2

\* C40: no task stays Running for ever: every task that a worker moves to
\* Running eventually reaches a terminal state, when the runner returns and
\* the result processor keeps running, also when the Store fails while the
\* result is being written.
C40_RunningTaskTerminates ==
    \A t \in TaskIds :
        (has_task(tasks, t) /\ tasks[t].status = Running)
            ~> (has_task(tasks, t) /\ is_complete(tasks[t]))

\* a Running task with nothing left to happen to it: the worker is idle, both
\* channels are empty and the result processor loop is running
C40_Witness ==
    /\ queue = << >>
    /\ result_queue = << >>
    /\ workers[FirstWorker] = idle
    /\ loops.result_processor = "running"
    /\ \E t \in DOMAIN tasks : tasks[t].status = Running

====
